---- MODULE Spec2Model ----
(***************************************************************************)
(* Model of the machine-section parts schedule (61_kikaikaSchedule):       *)
(*   master_kikaika.py    - shortage date / due date / shortage quantity,   *)
(*                          open-order backlog and startable quantity       *)
(*   child_requirements.py - BOM explosion into daily child demand          *)
(*                                                                         *)
(* Quantities are modelled as integers.  A nullable value (SQL NULL, NaN,   *)
(* Python None) is the empty sequence <<>>, a present value v is <<v>>.     *)
(* A pandas DataFrame is a sequence of records (row order and duplicate     *)
(* rows are kept).  Dates are day numbers.                                  *)
(***************************************************************************)
EXTENDS Integers, Sequences, FiniteSets, TLC

VARIABLES
    pc,             \* position of the run
    \* ---- compute_shortage (one call, unrolled over its for loop)
    inv_total,      \* argument inv_total
    demand,         \* req_row restricted to date_colnames, in date order
    date_cols,      \* argument date_cols (ascending dates)
    idx,            \* number of loop iterations done
    cum,            \* local cum
    shortage_date,  \* local shortage_date (None = <<>>)
    shortage_qty,   \* returned shortage_qty (None until the loop is over)
    \* ---- to_int_str (one element of the Series)
    raw,            \* the raw line-number value
    key,            \* to_int_str(raw)
    key2,           \* to_int_str(key): the key canonicalized again
    \* ---- main (master_kikaika.py)
    db,             \* the snapshot read: database tables, the CSV, today
    base,           \* base: machine parts with the inventory columns
    req,            \* req: daily demand per MITM_N
    mfg_orders,     \* mfg_orders returned by load_mfg_open_orders
    zan_sum,        \* zan_sum returned by load_mfg_open_orders
    recon,          \* g of load_paintable: A, B, C and 着手可 per MITM_N
    out,            \* out after step 7, one row per machine part
    out_final,      \* the table written to kikaikaSchedule.csv
    \* ---- run (child_requirements.py)
    cr,             \* the snapshot read: trn_AssySchedule, bomMaster, TODAY
    df_sched,       \* df_sched: the plan rows (ProdDate, Item, Qty)
    bom_cache,      \* bom_cache: the child lines per parent
    pivot_df,       \* pivot_df with its columns renamed by strftime
    all_days_str,   \* all_days_str: the day labels of the horizon
    result_df,      \* result_df, written to child_requirements.csv
    \* ---- ym_day_to_date_safe (one call)
    cell_ym,        \* argument ym
    cell_daycol,    \* argument daycol
    prod_date,      \* what the call does: raises, or returns a date or None
    \* ---- delivery_date_from_shortage (one call)
    workdays,       \* argument workdays
    cal_shortage,   \* argument shortage
    cal_back_days,  \* argument back_days
    snapped,        \* local s = nearest_workday(workdays, shortage)
    due_date        \* what the call does: raises, or returns a workday

vars == <<pc, inv_total, demand, date_cols, idx, cum, shortage_date,
          shortage_qty, raw, key, key2,
          db, base, req, mfg_orders, zan_sum, recon, out, out_final,
          cr, df_sched, bom_cache, pivot_df, all_days_str, result_df, cell_ym, cell_daycol, prod_date,
          workdays, cal_shortage, cal_back_days, snapped, due_date>>

shortageVars == <<inv_total, demand, date_cols, idx, cum, shortage_date, shortage_qty>>
keyVars == <<raw, key, key2>>
mainVars == <<db, base, req, mfg_orders, zan_sum, recon, out, out_final>>
runVars == <<cr, df_sched, bom_cache, pivot_df, all_days_str, result_df>>
cellVars == <<cell_ym, cell_daycol, prod_date>>
calVars == <<workdays, cal_shortage, cal_back_days, snapped, due_date>>

(***************************************************************************)
(* Bounds of the model                                                     *)
(***************************************************************************)
MaxDays == 3        \* longest demand horizon explored for compute_shortage
MaxStrLen == 3      \* longest raw line-number string explored
MaxQty == 2         \* largest stock / daily demand explored
MaxRows == 4        \* most rows of TTISFC001002, TTDPUR041002 and TTDPUR045002 together

None == <<>>
Some(v) == <<v>>
IsNone(x) == x = <<>>
Val(x) == x[1]

\* Series.fillna(0) on one element
FillNa0(x) == IF IsNone(x) THEN 0 ELSE Val(x)

Max(a, b) == IF a >= b THEN a ELSE b

RECURSIVE SumSeq(_)
SumSeq(s) == IF s = <<>> THEN 0 ELSE s[1] + SumSeq(Tail(s))

\* all sequences over S of length 0..n
SeqsUpTo(S, n) == UNION {[1..k -> S] : k \in 0..n}

(***************************************************************************)
(* compute_shortage                                                        *)
(***************************************************************************)
\* faulty variant: the "shortage_date is None" test is missing, so a later day
\* that is also short overwrites the date
ShortageStep_Overwrite(st, inv, d, q) ==
    LET c == st.cum + q
    IN  [cum  |-> c,
         date |-> IF inv - c <= 0 THEN Some(d) ELSE st.date]

\* faulty variant: accumulation stops once the shortage date is set, so the final
\* quantity is the deficit on the shortage date
ShortageStep_StopAtDate(st, inv, d, q) ==
    LET c == IF IsNone(st.date) THEN st.cum + q ELSE st.cum
    IN  [cum  |-> c,
         date |-> IF IsNone(st.date) /\ inv - c <= 0 THEN Some(d) ELSE st.date]

\* faulty variant: a day that brings the quantity to exactly 0 is not short
ShortageStep_Strict(st, inv, d, q) ==
    LET c == st.cum + q
    IN  [cum  |-> c,
         date |-> IF IsNone(st.date) /\ inv - c < 0 THEN Some(d) ELSE st.date]

\* one iteration of the for loop: cum += qty; first day with inv - cum <= 0
ShortageStep(st, inv, d, q) ==
    LET c == st.cum + q
    IN  [cum  |-> c,
         date |-> IF IsNone(st.date) /\ inv - c <= 0 THEN Some(d) ELSE st.date]

\* the for loop over zip(date_cols, date_colnames) from iteration i on; the
\* state of the previous iteration is evaluated before the next one starts
\* (the third disjunct is never true)
RECURSIVE ShortageLoop(_, _, _, _, _)
ShortageLoop(st, inv, dates, qtys, i) ==
    IF i > Len(dates) \/ i > Len(qtys) \/ st.cum # st.cum THEN st
    ELSE ShortageLoop(ShortageStep(st, inv, dates[i], qtys[i]), inv, dates, qtys, i + 1)

\* compute_shortage(req_row, inv_total, date_colnames, date_cols)
compute_shortage(qtys, inv, dates) ==
    LET st == ShortageLoop([cum |-> 0, date |-> None], inv, dates, qtys, 1)
    IN  [date |-> st.date, qty |-> inv - st.cum]

(***************************************************************************)
(* to_int_str: pd.to_numeric(errors="coerce").fillna(-1).astype(int)        *)
(*             .astype(str), element by element                             *)
(*                                                                         *)
(* A raw value is an integer, a float (sign, whole part, first decimal),    *)
(* a string (sequence of characters) or NULL.  A canonical key is the       *)
(* string astype(str) renders, as a sequence of characters.                 *)
(***************************************************************************)
RawInt(v)          == [t |-> "int",   neg |-> v < 0, whole |-> IF v < 0 THEN -v ELSE v, frac |-> 0, s |-> <<>>]
RawFloat(n, w, f)  == [t |-> "float", neg |-> n, whole |-> w, frac |-> f, s |-> <<>>]
RawStr(chars)      == [t |-> "str",   neg |-> FALSE, whole |-> 0, frac |-> 0, s |-> chars]
RawNull            == [t |-> "null",  neg |-> FALSE, whole |-> 0, frac |-> 0, s |-> <<>>]

DigitChars == <<"0", "1", "2", "3", "4", "5", "6", "7", "8", "9">>
IsDigit(c) == \E i \in 1..10 : DigitChars[i] = c
DigitVal(c) == (CHOOSE i \in 1..10 : DigitChars[i] = c) - 1
IsSpace(c) == c = " "

\* index of the first character at or after i that is not white space
RECURSIVE SkipSpace(_, _)
SkipSpace(s, i) ==
    IF i <= Len(s) /\ IsSpace(s[i]) THEN SkipSpace(s, i + 1) ELSE i

\* index of the first character at or after i that is not a digit
RECURSIVE SkipDigits(_, _)
SkipDigits(s, i) ==
    IF i <= Len(s) /\ IsDigit(s[i]) THEN SkipDigits(s, i + 1) ELSE i

\* value of the digit string s[a..b-1]
RECURSIVE DigitsValue(_, _, _)
DigitsValue(s, a, b) ==
    IF a >= b THEN 0 ELSE DigitsValue(s, a, b - 1) * 10 + DigitVal(s[b - 1])

NaN == [nan |-> TRUE, neg |-> FALSE, whole |-> 0, frac |-> 0]
Num(n, w, f) == [nan |-> FALSE, neg |-> n, whole |-> w, frac |-> f]

\* the string-to-double conversion pd.to_numeric applies to a str element:
\* leading white space, optional sign, digits, optional "." and digits,
\* trailing white space, end of string; no digit at all is an error
ParseStr(s) ==
    LET i0 == SkipSpace(s, 1)
        hasSign == i0 <= Len(s) /\ s[i0] \in {"-", "+"}
        neg == hasSign /\ s[i0] = "-"
        i1 == IF hasSign THEN i0 + 1 ELSE i0
        i2 == SkipDigits(s, i1)
        hasDot == i2 <= Len(s) /\ s[i2] = "."
        i3 == IF hasDot THEN i2 + 1 ELSE i2
        i4 == IF hasDot THEN SkipDigits(s, i3) ELSE i3
        ndigits == (i2 - i1) + (i4 - i3)
        i5 == SkipSpace(s, i4)
    IN  IF ndigits = 0 \/ i5 <= Len(s) THEN NaN
        ELSE Num(neg, DigitsValue(s, i1, i2),
                 IF i4 > i3 THEN DigitVal(s[i3]) ELSE 0)

\* pd.to_numeric(x, errors="coerce") on one element
to_numeric(x) ==
    CASE x.t = "int"   -> Num(x.neg, x.whole, 0)
      [] x.t = "float" -> Num(x.neg, x.whole, x.frac)
      [] x.t = "str"   -> ParseStr(x.s)
      [] OTHER         -> NaN

\* .fillna(-1).astype(int): NaN becomes -1, a float is truncated toward zero
FillNaAsInt(n) ==
    IF n.nan THEN -1 ELSE IF n.neg THEN -(n.whole) ELSE n.whole

\* decimal digits of a natural number
RECURSIVE NatStr(_)
NatStr(n) ==
    IF n < 10 THEN <<DigitChars[n + 1]>>
    ELSE NatStr(n \div 10) \o <<DigitChars[(n % 10) + 1]>>

\* .astype(str) on an integer
IntStr(v) == IF v < 0 THEN <<"-">> \o NatStr(-v) ELSE NatStr(v)

\* faulty variant: the value is rendered without .astype(int), so a float keeps
\* its decimal part ("10.0")
to_int_str_NoAsInt(x) ==
    LET n == to_numeric(x)
    IN  IF n.nan THEN <<"-", "1", ".", "0">>
        ELSE IF x.t = "int" THEN IntStr(FillNaAsInt(n))
        ELSE IntStr(FillNaAsInt(n)) \o <<".", DigitChars[n.frac + 1]>>

to_int_str(x) == IntStr(FillNaAsInt(to_numeric(x)))

(***************************************************************************)
(* Table helpers (pandas operations on sequences of rows)                  *)
(***************************************************************************)
Range(s) == {s[i] : i \in 1..Len(s)}

RECURSIVE Concat(_)
Concat(ss) == IF ss = <<>> THEN <<>> ELSE ss[1] \o Concat(Tail(ss))

\* sum of a numeric column of a table
SumCol(rows, col) == SumSeq([i \in 1..Len(rows) |-> rows[i][col]])

\* sum of a nullable column of a table, NaN counted as 0
SumColNa(rows, col) == SumSeq([i \in 1..Len(rows) |-> FillNa0(rows[i][col])])

(***************************************************************************)
(* normalize_item: every ASCII space and every full-width space removed.    *)
(* A part identifier is a sequence of characters; "FW" stands for U+3000.   *)
(***************************************************************************)
IsItemSpace(c) == c \in {" ", "FW"}

normalize_item(x) == SelectSeq(x, LAMBDA c : ~IsItemSpace(c))

(***************************************************************************)
(* load_mfg_open_orders                                                    *)
(***************************************************************************)
\* the status bound of the SQL text: WHERE [T$OSTA] < 6
OpenStatusBound == 6

\* 注残 = QRDR.fillna(0) - QDLV.fillna(0)
Backlog(r) == FillNa0(r.QRDR) - FillNa0(r.QDLV)

\* the DataFrame df returned as mfg_orders: open orders of machine parts
\* with the raw line number OPRO, MITM_N, 注残 (zan) and the join key OPRO_K
mfg_orders_of(sfc, mitm_set) ==
    LET open == SelectSeq(sfc, LAMBDA r : r.OSTA < OpenStatusBound)
        mine == SelectSeq(open, LAMBDA r : normalize_item(r.MITM) \in mitm_set)
    IN  [i \in 1..Len(mine) |->
            [PDNO   |-> mine[i].PDNO,
             OPRO   |-> mine[i].OPRO,
             OPRO_K |-> to_int_str(mine[i].OPRO),
             MITM_N |-> normalize_item(mine[i].MITM),
             zan    |-> Backlog(mine[i])]]

\* zan_sum: 注残 summed per MITM_N
zan_sum_of(orders) ==
    [m \in {r.MITM_N : r \in Range(orders)} |->
        SumCol(SelectSeq(orders, LAMBDA r : r.MITM_N = m), "zan")]

(***************************************************************************)
(* load_paintable                                                          *)
(***************************************************************************)
\* the rows of a purchase table the SQL returns: WHERE [T$PDNO] IN (pdnos)
FetchByPdno(table, orders) ==
    LET pdnos == {Val(r.PDNO) : r \in {o \in Range(orders) : ~IsNone(o.PDNO)}}
    IN  SelectSeq(table, LAMBDA r : r.PDNO \in pdnos)

\* p041 after the type/key unification
p041_typed(p041) ==
    [i \in 1..Len(p041) |->
        [PDNO   |-> Some(p041[i].PDNO),
         OPNO_K |-> to_int_str(p041[i].OPNO),
         PONO   |-> IntStr(p041[i].PONO),
         ORNO   |-> IntStr(p041[i].ORNO),
         OQUA   |-> FillNa0(p041[i].OQUA)]]

\* p045 after the type unification
p045_typed(p045) ==
    [i \in 1..Len(p045) |->
        [PDNO |-> Some(p045[i].PDNO),
         PONO |-> IntStr(p045[i].PONO),
         ORNO |-> IntStr(p045[i].ORNO),
         DQUA |-> FillNa0(p045[i].DQUA)]]

ReceiptKey(r) == <<r.PDNO, r.PONO, r.ORNO>>

\* the distinct keys of a table, each once
RECURSIVE DistinctKeys(_, _)
DistinctKeys(s, seen) ==
    IF s = <<>> THEN <<>>
    ELSE IF ReceiptKey(s[1]) \in seen THEN DistinctKeys(Tail(s), seen)
    ELSE <<ReceiptKey(s[1])>> \o DistinctKeys(Tail(s), seen \cup {ReceiptKey(s[1])})

\* faulty variant: the receipts are joined row by row, not summed per key first
p045_sum_of_NoGroup(p045t) ==
    [i \in 1..Len(p045t) |->
        [PDNO |-> p045t[i].PDNO, PONO |-> p045t[i].PONO, ORNO |-> p045t[i].ORNO,
         DQUA_SUM |-> p045t[i].DQUA]]

\* p045.groupby(["PDNO","PONO","ORNO"]).agg(DQUA_SUM=("DQUA","sum"))
p045_sum_of(p045t) ==
    LET ks == DistinctKeys(p045t, {})
    IN  [i \in 1..Len(ks) |->
            [PDNO |-> ks[i][1], PONO |-> ks[i][2], ORNO |-> ks[i][3],
             DQUA_SUM |-> SumCol(SelectSeq(p045t, LAMBDA r : ReceiptKey(r) = ks[i]),
                                 "DQUA")]]

\* faulty variant: how="inner", an order line without purchase line is lost
MergePurchase_Inner(left, p041t) ==
    Concat([i \in 1..Len(left) |->
        LET b == left[i]
            hit == SelectSeq(p041t, LAMBDA r : r.PDNO = b.PDNO /\ r.OPNO_K = b.OPRO_K)
        IN  [k \in 1..Len(hit) |->
               [MITM_N |-> b.MITM_N, zan |-> b.zan, PDNO |-> b.PDNO,
                OPRO_K |-> b.OPRO_K,
                PONO |-> Some(hit[k].PONO), ORNO |-> Some(hit[k].ORNO),
                OQUA |-> Some(hit[k].OQUA)]]])

\* base.merge(p041, left_on=[PDNO, OPRO_K], right_on=[PDNO, OPNO_K], how="left"):
\* one row per matching purchase line, or one row of NaN when none matches
MergePurchase(left, p041t) ==
    Concat([i \in 1..Len(left) |->
        LET b == left[i]
            hit == SelectSeq(p041t, LAMBDA r : r.PDNO = b.PDNO /\ r.OPNO_K = b.OPRO_K)
        IN  IF hit = <<>>
            THEN <<[MITM_N |-> b.MITM_N, zan |-> b.zan, PDNO |-> b.PDNO,
                    OPRO_K |-> b.OPRO_K,
                    PONO |-> None, ORNO |-> None, OQUA |-> None]>>
            ELSE [k \in 1..Len(hit) |->
                   [MITM_N |-> b.MITM_N, zan |-> b.zan, PDNO |-> b.PDNO,
                    OPRO_K |-> b.OPRO_K,
                    PONO |-> Some(hit[k].PONO), ORNO |-> Some(hit[k].ORNO),
                    OQUA |-> Some(hit[k].OQUA)]]])

\* faulty variant: the receipts are joined on [PONO, ORNO], without PDNO
MergeReceipts_NoPdno(j, p045s) ==
    Concat([i \in 1..Len(j) |->
        LET a == j[i]
            hit == IF IsNone(a.PONO) THEN <<>>
                   ELSE SelectSeq(p045s, LAMBDA r : r.PONO = Val(a.PONO)
                                                    /\ r.ORNO = Val(a.ORNO))
        IN  IF hit = <<>>
            THEN <<[MITM_N |-> a.MITM_N, zan |-> a.zan, PDNO |-> a.PDNO,
                    OPRO_K |-> a.OPRO_K, PONO |-> a.PONO, ORNO |-> a.ORNO,
                    OQUA |-> a.OQUA, DQUA_SUM |-> None]>>
            ELSE [k \in 1..Len(hit) |->
                   [MITM_N |-> a.MITM_N, zan |-> a.zan, PDNO |-> a.PDNO,
                    OPRO_K |-> a.OPRO_K, PONO |-> a.PONO, ORNO |-> a.ORNO,
                    OQUA |-> a.OQUA, DQUA_SUM |-> Some(hit[k].DQUA_SUM)]]])

\* j.merge(p045_sum, on=[PDNO, PONO, ORNO], how="left")
MergeReceipts(j, p045s) ==
    Concat([i \in 1..Len(j) |->
        LET a == j[i]
            hit == IF IsNone(a.PONO) THEN <<>>
                   ELSE SelectSeq(p045s, LAMBDA r : r.PDNO = a.PDNO
                                                    /\ r.PONO = Val(a.PONO)
                                                    /\ r.ORNO = Val(a.ORNO))
        IN  IF hit = <<>>
            THEN <<[MITM_N |-> a.MITM_N, zan |-> a.zan, PDNO |-> a.PDNO,
                    OPRO_K |-> a.OPRO_K, PONO |-> a.PONO, ORNO |-> a.ORNO,
                    OQUA |-> a.OQUA, DQUA_SUM |-> None]>>
            ELSE [k \in 1..Len(hit) |->
                   [MITM_N |-> a.MITM_N, zan |-> a.zan, PDNO |-> a.PDNO,
                    OPRO_K |-> a.OPRO_K, PONO |-> a.PONO, ORNO |-> a.ORNO,
                    OQUA |-> a.OQUA, DQUA_SUM |-> Some(hit[k].DQUA_SUM)]]])

\* the joined table j of load_paintable
JoinedRows(orders, p041, p045) ==
    MergeReceipts(MergePurchase(orders, p041_typed(p041)),
                  IF p045 = <<>> THEN <<>> ELSE p045_sum_of(p045_typed(p045)))

\* clip(lower=0)
ClipLower0(x) == Max(0, x)

\* faulty variant: the result is not clipped at 0
Startable_NoClip(A, B, C) == A - (B - C)

\* 母材未納残 = B - C ; 着手可 = (A - 母材未納残).clip(lower=0)
Startable(A, B, C) == ClipLower0(A - (B - C))

\* j.groupby("MITM_N").agg(A=sum 注残, B=sum OQUA, C=sum DQUA_SUM), with 着手可
GroupJoined(j) ==
    [m \in {r.MITM_N : r \in Range(j)} |->
        LET rows == SelectSeq(j, LAMBDA r : r.MITM_N = m)
            A == SumCol(rows, "zan")
            B == SumColNa(rows, "OQUA")
            C == SumColNa(rows, "DQUA_SUM")
        IN  [A |-> A, B |-> B, C |-> C, startable |-> Startable(A, B, C)]]

\* the branch taken when no purchase line was fetched: 着手可 = clip(Σ注残)
GroupNoPurchase(orders) ==
    [m \in {r.MITM_N : r \in Range(orders)} |->
        LET A == SumCol(SelectSeq(orders, LAMBDA r : r.MITM_N = m), "zan")
        IN  [A |-> A, B |-> 0, C |-> 0, startable |-> ClipLower0(A)]]

\* load_paintable(mfg_orders): the per-part aggregate g (empty when the
\* function returns its empty frame)
load_paintable(orders, tab041, tab045) ==
    IF orders = <<>> THEN <<>>
    ELSE IF \A r \in Range(orders) : IsNone(r.PDNO) THEN <<>>
    ELSE LET p041 == FetchByPdno(tab041, orders)
             p045 == FetchByPdno(tab045, orders)
         IN  IF p041 = <<>> THEN GroupNoPurchase(orders)
             ELSE GroupJoined(JoinedRows(orders, p041, p045))

(***************************************************************************)
(* Calendar: nearest_workday, delivery_date_from_shortage                  *)
(***************************************************************************)
\* bisect.bisect_left / np.searchsorted(side="left"), as a 0-based index
RECURSIVE BisectLeft(_, _, _)
BisectLeft(ws, t, i) ==
    IF i < Len(ws) /\ ws[i + 1] < t THEN BisectLeft(ws, t, i + 1) ELSE i

\* faulty variant: a date as far from the workday before as from the one after
\* is snapped to the later one
nearest_workday_TieLater(ws, target) ==
    IF ws = <<>> THEN target
    ELSE IF target <= ws[1] THEN ws[1]
    ELSE IF target >= ws[Len(ws)] THEN ws[Len(ws)]
    ELSE LET i == BisectLeft(ws, target, 0)
             before == ws[i]
             after == ws[i + 1]
         IN  IF (target - before) < (after - target) THEN before ELSE after

nearest_workday(ws, target) ==
    IF ws = <<>> THEN target
    ELSE IF target <= ws[1] THEN ws[1]
    ELSE IF target >= ws[Len(ws)] THEN ws[Len(ws)]
    ELSE LET i == BisectLeft(ws, target, 0)
             before == ws[i]
             after == ws[i + 1]
         IN  IF (target - before) <= (after - target) THEN before ELSE after

\* the default of the parameter back_days, and the value main passes
BackDays == 5

\* faulty variant: one workday less than back_days is gone back
delivery_date_from_shortage_OffByOne(ws, shortage, back_days) ==
    LET s == nearest_workday(ws, shortage)
        i == BisectLeft(ws, s, 0)
        due_idx == Max(0, i - back_days + 1)
    IN  IF due_idx + 1 > Len(ws) THEN [raised |-> TRUE, date |-> None]
        ELSE [raised |-> FALSE, date |-> Some(ws[due_idx + 1])]

\* delivery_date_from_shortage; workdays[due_idx] on an empty list raises
\* IndexError (raised = TRUE)
delivery_date_from_shortage(ws, shortage, back_days) ==
    LET s == nearest_workday(ws, shortage)
        i == BisectLeft(ws, s, 0)
        due_idx == Max(0, i - back_days)
    IN  IF due_idx + 1 > Len(ws) THEN [raised |-> TRUE, date |-> None]
        ELSE [raised |-> FALSE, date |-> Some(ws[due_idx + 1])]

(***************************************************************************)
(* main, steps 1-2: machine parts and the inventory sources                *)
(***************************************************************************)
\* first row of a table with the given MITM_N
FirstOf(rows, m) ==
    rows[CHOOSE i \in 1..Len(rows) :
            /\ normalize_item(rows[i].MITM) = m
            /\ \A k \in 1..(i - 1) : normalize_item(rows[k].MITM) # m]

\* load_machine_parts: one row per MITM_N (品番 and CWAR of the first row)
load_machine_parts(mp) ==
    [m \in {normalize_item(r.MITM) : r \in Range(mp)} |->
        [item |-> FirstOf(mp, m).MITM, CWAR |-> FirstOf(mp, m).CWAR]]

\* load_stock_stoc: STOC summed per (ITEM_N, CWAR) over the rows fetched by
\* 品番, left-joined to the machine parts, NaN filled with 0
load_stock_stoc(parts, inv) ==
    [m \in DOMAIN parts |->
        SumColNa(SelectSeq(inv, LAMBDA r :
                    /\ \E q \in DOMAIN parts : parts[q].item = r.ITEM
                    /\ normalize_item(r.ITEM) = normalize_item(parts[m].item)
                    /\ r.CWAR = parts[m].CWAR),
                 "STOC")]

\* load_theory_and_external: quantity summed per ITEM_N; a part absent from
\* the source has no row (None)
SumPerItem(rows) ==
    [m \in {normalize_item(r.ITEM) : r \in Range(rows)} |->
        SumColNa(SelectSeq(rows, LAMBDA r : normalize_item(r.ITEM) = m), "QTY")]

\* left merge of a per-item sum followed by fillna(0)
LookupFill0(f, m) == IF m \in DOMAIN f THEN f[m] ELSE 0

\* base["在庫合計"] = base["棚理論"] + base["外部"]
InventoryTotal(stoc, theory, ext) == theory + ext

\* base after the three merges
base_of(d) ==
    LET parts == load_machine_parts(d.mp)
        stoc == load_stock_stoc(parts, d.inv)
        th == SumPerItem(d.theory)
        ex == SumPerItem(d.ext)
    IN  [m \in DOMAIN parts |->
            [item |-> parts[m].item,
             STOC |-> stoc[m],
             theory |-> LookupFill0(th, m),
             ext |-> LookupFill0(ex, m),
             total |-> InventoryTotal(stoc[m], LookupFill0(th, m), LookupFill0(ex, m))]]

(***************************************************************************)
(* main, step 3: load_child_requirements                                   *)
(***************************************************************************)
\* element-wise sum of two quantity rows of the same length
AddRows(a, b) == [i \in 1..Len(a) |-> a[i] + b[i]]

RECURSIVE SumRows(_, _)
SumRows(rows, n) ==
    IF rows = <<>> THEN [i \in 1..n |-> 0]
    ELSE AddRows([i \in 1..n |-> FillNa0(rows[1].qtys[i])], SumRows(Tail(rows), n))

\* req: the daily quantities summed per MITM_N
load_child_requirements(csv, n) ==
    [m \in {normalize_item(r.ITEM) : r \in Range(csv)} |->
        SumRows(SelectSeq(csv, LAMBDA r : normalize_item(r.ITEM) = m), n)]

(***************************************************************************)
(* main, steps 6-8: one row per machine part, shortage, due date, filter,   *)
(* sort                                                                    *)
(***************************************************************************)
\* faulty variant: the due date is not moved forward to today
OutRow_NoClamp(m, b, rq, zs, g, dates, ws, today) ==
    LET qtys == IF m \in DOMAIN rq THEN rq[m] ELSE [i \in 1..Len(dates) |-> 0]
        sh == compute_shortage(qtys, b.STOC, dates)
        dd == IF IsNone(sh.date) THEN [raised |-> FALSE, date |-> None]
              ELSE delivery_date_from_shortage(ws, Val(sh.date), BackDays)
    IN  [MITM_N |-> m, item |-> b.item,
         STOC |-> b.STOC, theory |-> b.theory, ext |-> b.ext, total |-> b.total,
         qtys |-> qtys,
         zan |-> LookupFill0(zs, m),
         startable |-> IF m \in DOMAIN g THEN g[m].startable ELSE 0,
         sdate |-> sh.date, due |-> dd.date, sqty |-> sh.qty,
         raised |-> dd.raised,
         reqsum |-> SumSeq(qtys)]

\* the row of out for machine part m after step 7
OutRow(m, b, rq, zs, g, dates, ws, today) ==
    LET qtys == IF m \in DOMAIN rq THEN rq[m] ELSE [i \in 1..Len(dates) |-> 0]
        sh == compute_shortage(qtys, b.STOC, dates)
        dd == IF IsNone(sh.date) THEN [raised |-> FALSE, date |-> None]
              ELSE delivery_date_from_shortage(ws, Val(sh.date), BackDays)
        due == IF IsNone(dd.date) THEN None
               ELSE IF Val(dd.date) < today THEN Some(today) ELSE dd.date
    IN  [MITM_N |-> m, item |-> b.item,
         STOC |-> b.STOC, theory |-> b.theory, ext |-> b.ext, total |-> b.total,
         qtys |-> qtys,
         zan |-> LookupFill0(zs, m),
         startable |-> IF m \in DOMAIN g THEN g[m].startable ELSE 0,
         sdate |-> sh.date, due |-> due, sqty |-> sh.qty,
         raised |-> dd.raised,
         reqsum |-> SumSeq(qtys)]

\* faulty variant: parts with shortage quantity 0 are kept as well
KeepRow_Le(r) == r.sqty <= 0

\* out = out[out["不足数"] < 0]
KeepRow(r) == r.sqty < 0

\* code points of the characters used in part identifiers
CharRank(c) ==
    CASE c = " " -> 32
      [] c = "/" -> 47
      [] IsDigit(c) -> 48 + DigitVal(c)
      [] c = "C" -> 67
      [] c = "P" -> 80
      [] c = "Q" -> 81
      [] c = "X" -> 88
      [] OTHER -> 12288

\* Python str <
RECURSIVE StrLess(_, _)
StrLess(a, b) ==
    IF b = <<>> THEN FALSE
    ELSE IF a = <<>> THEN TRUE
    ELSE IF CharRank(a[1]) # CharRank(b[1]) THEN CharRank(a[1]) < CharRank(b[1])
    ELSE StrLess(Tail(a), Tail(b))

\* sort_values(by=[欠品日, 品番], ascending, na_position="last")
RowBefore(a, b) ==
    IF a.sdate # b.sdate
    THEN ~IsNone(a.sdate) /\ (IsNone(b.sdate) \/ Val(a.sdate) < Val(b.sdate))
    ELSE StrLess(a.item, b.item)

RECURSIVE SortRows(_)
SortRows(rows) ==
    IF rows = {} THEN <<>>
    ELSE LET first == CHOOSE r \in rows : \A q \in rows \ {r} : RowBefore(r, q)
         IN  <<first>> \o SortRows(rows \ {first})

(***************************************************************************)
(* child_requirements.py: dates, year-month strings, day columns           *)
(*                                                                         *)
(* A datetime.date is its ordinal (date.toordinal()), so that comparing    *)
(* dates and adding days are integer operations.  A str is a sequence of   *)
(* characters; "KEI" stands for the character U+8A08 of the day columns.   *)
(***************************************************************************)
HORIZON_DAYS == 60

IsLeap(y) == (y % 4 = 0) /\ ((y % 100 # 0) \/ (y % 400 = 0))

DaysInMonth(y, m) ==
    IF m = 2 THEN (IF IsLeap(y) THEN 29 ELSE 28)
    ELSE IF m \in {4, 6, 9, 11} THEN 30 ELSE 31

\* dt.date(y, m, d) does not raise ValueError
ValidDate(y, m, d) ==
    /\ y >= 1 /\ y <= 9999
    /\ m >= 1 /\ m <= 12
    /\ d >= 1 /\ d <= DaysInMonth(y, m)

\* date.toordinal(): days since 0001-01-01, that day being 1
DaysBeforeYear(y) ==
    LET q == y - 1 IN q * 365 + (q \div 4) - (q \div 100) + (q \div 400)
MonthCum == <<0, 31, 59, 90, 120, 151, 181, 212, 243, 273, 304, 334>>
DaysBeforeMonth(y, m) == MonthCum[m] + (IF m > 2 /\ IsLeap(y) THEN 1 ELSE 0)
ToOrdinal(y, m, d) == DaysBeforeYear(y) + DaysBeforeMonth(y, m) + d

\* date.fromordinal(): year, month and day of a date
YearOf(o) ==
    CHOOSE y \in ((o \div 366) + 1)..((o \div 365) + 1) :
        DaysBeforeYear(y) < o /\ o <= DaysBeforeYear(y + 1)
MonthOf(o) ==
    LET y == YearOf(o)
        n == o - DaysBeforeYear(y)
    IN  CHOOSE m \in 1..12 :
            DaysBeforeMonth(y, m) < n /\ n <= DaysBeforeMonth(y, m) + DaysInMonth(y, m)
DayOf(o) == o - DaysBeforeYear(YearOf(o)) - DaysBeforeMonth(YearOf(o), MonthOf(o))

\* str.split(sep): the pieces between the occurrences of sep
RECURSIVE SplitFrom(_, _, _)
SplitFrom(s, sep, cur) ==
    IF s = <<>> THEN <<cur>>
    ELSE IF s[1] = sep THEN <<cur>> \o SplitFrom(Tail(s), sep, <<>>)
    ELSE SplitFrom(Tail(s), sep, Append(cur, s[1]))
Split(s, sep) == SplitFrom(s, sep, <<>>)

\* int(str): white space, optional sign, digits, white space; anything else
\* raises ValueError (None)
PyInt(s) ==
    LET i0 == SkipSpace(s, 1)
        hasSign == i0 <= Len(s) /\ s[i0] \in {"-", "+"}
        i1 == IF hasSign THEN i0 + 1 ELSE i0
        i2 == SkipDigits(s, i1)
        i3 == SkipSpace(s, i2)
    IN  IF i2 = i1 \/ i3 <= Len(s) THEN None
        ELSE IF hasSign /\ s[i0] = "-" THEN Some(-DigitsValue(s, i1, i2))
        ELSE Some(DigitsValue(s, i1, i2))

\* a call either raises an exception (error is its class) or returns a value
Raises(e) == [raised |-> TRUE, value |-> None, error |-> e]
Returns(v) == [raised |-> FALSE, value |-> v, error |-> "none"]

\* get_month_last_day(year, month): dt.date raises ValueError when the first
\* day of the next month is no date, the subtraction raises OverflowError
\* below date.min
get_month_last_day(year, month) ==
    LET ny == IF month = 12 THEN year + 1 ELSE year
        nm == IF month = 12 THEN 1 ELSE month + 1
    IN  IF ~ValidDate(ny, nm, 1) THEN Raises("ValueError")
        ELSE IF ToOrdinal(ny, nm, 1) - 1 < 1 THEN Raises("OverflowError")
        ELSE Returns(DayOf(ToOrdinal(ny, nm, 1) - 1))

\* ym_day_to_date_safe(ym, daycol): value None is the None it returns
ym_day_to_date_safe(ym, daycol) ==
    LET parts == Split(ym, "/")
        year == IF Len(parts) = 2 THEN PyInt(parts[1]) ELSE None
        month == IF Len(parts) = 2 THEN PyInt(parts[2]) ELSE None
        day == PyInt(SelectSeq(daycol, LAMBDA c : c # "KEI"))
    IN  IF IsNone(year) \/ IsNone(month) THEN Returns(None)
        ELSE IF IsNone(day) THEN Returns(None)
        ELSE LET last == get_month_last_day(Val(year), Val(month))
             IN  IF last.raised THEN Raises(last.error)
                 ELSE IF Val(day) > last.value THEN Returns(None)
                 ELSE IF ValidDate(Val(year), Val(month), Val(day))
                      THEN Returns(Some(ToOrdinal(Val(year), Val(month), Val(day))))
                      ELSE Returns(None)

\* month_range(ym_str): first and last day of the month, or an exception
month_range(ym) ==
    LET parts == Split(ym, "/")
        y == IF Len(parts) = 2 THEN PyInt(parts[1]) ELSE None
        m == IF Len(parts) = 2 THEN PyInt(parts[2]) ELSE None
    IN  IF IsNone(y) \/ IsNone(m) THEN Raises("ValueError")
        ELSE IF ~ValidDate(Val(y), Val(m), 1) THEN Raises("ValueError")
        ELSE IF ~ValidDate(IF Val(m) = 12 THEN Val(y) + 1 ELSE Val(y),
                           IF Val(m) = 12 THEN 1 ELSE Val(m) + 1, 1)
             THEN Raises("ValueError")
        ELSE Returns([first |-> ToOrdinal(Val(y), Val(m), 1),
                      last  |-> ToOrdinal(Val(y), Val(m), DaysInMonth(Val(y), Val(m)))])

\* month_overlaps_target(ym_str, target_start, target_end)
month_overlaps_target(ym, target_start, target_end) ==
    LET r == month_range(ym)
    IN  IF r.raised THEN FALSE
        ELSE ~(r.value.last < target_start \/ r.value.first > target_end)

(***************************************************************************)
(* child_requirements.run                                                  *)
(*                                                                         *)
(* trn_AssySchedule is a sequence of rows [YearMonth, Item, cells], cells   *)
(* holding one raw value per column of the table other than YearMonth and   *)
(* Item; bomMaster is a sequence of rows [Item, sItem, bomValue].           *)
(* Quantities are whole numbers.                                           *)
(***************************************************************************)
\* re.match(r"^KEI\d{2}$", c): the day columns
IsDayCol(c) == Len(c) = 3 /\ c[1] = "KEI" /\ IsDigit(c[2]) /\ IsDigit(c[3])

\* str.strip(): white space removed at both ends only
PyIsSpace(c) == c \in {" ", "FW"}
RECURSIVE LStrip(_)
LStrip(s) == IF s # <<>> /\ PyIsSpace(s[1]) THEN LStrip(Tail(s)) ELSE s
RECURSIVE RStrip(_)
RStrip(s) ==
    IF s # <<>> /\ PyIsSpace(s[Len(s)]) THEN RStrip(SubSeq(s, 1, Len(s) - 1)) ELSE s
Strip(s) == RStrip(LStrip(s))

\* pd.to_numeric(errors="coerce").fillna(0) on one element
NumericFill0(x) ==
    LET n == to_numeric(x)
    IN  IF n.nan THEN 0 ELSE IF n.neg THEN -(n.whole) ELSE n.whole

\* rows kept by dropna(subset=["YearMonth"])
DropNaYearMonth(sched) == SelectSeq(sched, LAMBDA r : ~IsNone(r.YearMonth))

\* df_sched_raw[df_sched_raw["YearMonth"].apply(month_overlaps_target)]:
\* on rows the result of apply is a boolean mask and the rows of the months
\* that overlap the target are kept; on a frame without rows apply returns
\* an empty Series of dtype object, which indexes as a list of column labels
\* and selects no column
FilterTarget(kept, today) ==
    IF kept = <<>> THEN [has_columns |-> FALSE, rows |-> <<>>]
    ELSE [has_columns |-> TRUE,
          rows |-> SelectSeq(kept, LAMBDA r :
                      month_overlaps_target(Val(r.YearMonth), today,
                                            today + HORIZON_DAYS))]

\* the frame after dropna and the month filter
SchedRowsInTarget(sched, today) == FilterTarget(DropNaYearMonth(sched), today)

\* the rows of melt: one row per (day column, schedule row), column by
\* column, with Qty made numeric
MeltRows(rows, cols) ==
    LET day_idx == SelectSeq([i \in 1..Len(cols) |-> i], LAMBDA i : IsDayCol(cols[i]))
    IN  Concat([k \in 1..Len(day_idx) |->
            [i \in 1..Len(rows) |->
                [YearMonth |-> Val(rows[i].YearMonth),
                 Item      |-> rows[i].Item,
                 DayCol    |-> cols[day_idx[k]],
                 Qty       |-> NumericFill0(rows[i].cells[day_idx[k]])]]])

\* melt(id_vars=["YearMonth", "Item"]): KeyError on a frame that has lost
\* its columns
Melt(frame, cols) ==
    IF ~frame.has_columns THEN Raises("KeyError")
    ELSE Returns(MeltRows(frame.rows, cols))

\* the melted rows with Qty > 0
PositiveRows(long) == SelectSeq(long, LAMBDA r : r.Qty > 0)

\* ProdDate: ym_day_to_date_safe on every row
WithProdDate(long) ==
    [i \in 1..Len(long) |->
        [r |-> long[i], pd |-> ym_day_to_date_safe(long[i].YearMonth, long[i].DayCol)]]

\* dropna(subset=["ProdDate"]) and mask_period
InPeriod(dated, today) ==
    SelectSeq(dated, LAMBDA x :
        /\ ~IsNone(x.pd.value)
        /\ Val(x.pd.value) >= today
        /\ Val(x.pd.value) <= today + HORIZON_DAYS)

\* df_sched: the columns kept, Item stripped
PlanRows(kept) ==
    [i \in 1..Len(kept) |->
        [ProdDate |-> Val(kept[i].pd.value),
         Item     |-> Strip(kept[i].r.Item),
         Qty      |-> kept[i].r.Qty]]

\* an exception of ym_day_to_date_safe ends the run: the first row that
\* raises gives the exception
DatedToPlan(dated, today) ==
    IF \E i \in 1..Len(dated) : dated[i].pd.raised
    THEN Raises(dated[CHOOSE i \in 1..Len(dated) :
                         /\ dated[i].pd.raised
                         /\ \A j \in 1..(i - 1) : ~dated[j].pd.raised].pd.error)
    ELSE Returns(PlanRows(InPeriod(dated, today)))

\* the steps of run after melt, or the exception of melt
MeltedToPlan(melted, today) ==
    IF melted.raised THEN Raises(melted.error)
    ELSE DatedToPlan(WithProdDate(PositiveRows(melted.value)), today)

\* step 1 of run: df_sched, or the exception of melt or of
\* ym_day_to_date_safe
df_sched_of(sched, cols, today) ==
    MeltedToPlan(Melt(SchedRowsInTarget(sched, today), cols), today)

\* step 2 of run: df_bom cleaned
df_bom_of(bom) ==
    [i \in 1..Len(bom) |->
        [Item     |-> Strip(bom[i].Item),
         sItem    |-> Strip(bom[i].sItem),
         bomValue |-> NumericFill0(bom[i].bomValue)]]

\* bom_cache: the child lines of every parent
bom_cache_of(dfbom) ==
    [p \in {r.Item : r \in Range(dfbom)} |->
        LET sub == SelectSeq(dfbom, LAMBDA r : r.Item = p)
        IN  [i \in 1..Len(sub) |-> [sItem |-> sub[i].sItem, bomValue |-> sub[i].bomValue]]]

\* faulty variant: a parent without BOM lines is passed on as its own child
RecordsOfRow_Unknown(row, cache) ==
    IF row.Item \notin DOMAIN cache
    THEN <<[ProdDate |-> row.ProdDate, sItem |-> row.Item, needQty |-> row.Qty]>>
    ELSE [i \in 1..Len(cache[row.Item]) |->
            [ProdDate |-> row.ProdDate,
             sItem    |-> cache[row.Item][i].sItem,
             needQty  |-> cache[row.Item][i].bomValue * row.Qty]]

\* the body of the for loop: the records appended for one plan row
RecordsOfRow(row, cache) ==
    IF row.Item \notin DOMAIN cache THEN <<>>
    ELSE [i \in 1..Len(cache[row.Item]) |->
            [ProdDate |-> row.ProdDate,
             sItem    |-> cache[row.Item][i].sItem,
             needQty  |-> cache[row.Item][i].bomValue * row.Qty]]

\* pd.concat(records)
exploded_of(dfsched, cache) ==
    Concat([i \in 1..Len(dfsched) |-> RecordsOfRow(dfsched[i], cache)])

\* d.strftime("%Y-%m-%d")
Pad(n, w) ==
    LET t == NatStr(n)
    IN  IF Len(t) >= w THEN t ELSE [i \in 1..(w - Len(t)) |-> "0"] \o t
DateStr(d) ==
    Pad(YearOf(d), 4) \o <<"-">> \o Pad(MonthOf(d), 2) \o <<"-">> \o Pad(DayOf(d), 2)

\* all_days_str: the labels of today .. today + HORIZON_DAYS
all_days_str_of(today) == [i \in 1..(HORIZON_DAYS + 1) |-> DateStr(today + (i - 1))]

\* the elements of a set of dates in ascending order
RECURSIVE SortedDates(_)
SortedDates(S) ==
    IF S = {} THEN <<>>
    ELSE LET d == CHOOSE x \in S : \A y \in S : x <= y
         IN  <<d>> \o SortedDates(S \ {d})

\* faulty variant: the records of one (sItem, ProdDate) are not summed, the
\* first one is kept
pivot_df_of_First(exploded) ==
    LET dates == SortedDates({r.ProdDate : r \in Range(exploded)})
    IN  [columns |-> [k \in 1..Len(dates) |-> DateStr(dates[k])],
         rows |-> [c \in {r.sItem : r \in Range(exploded)} |->
                     [k \in 1..Len(dates) |->
                        LET hit == SelectSeq(exploded, LAMBDA r :
                                       r.sItem = c /\ r.ProdDate = dates[k])
                        IN  IF hit = <<>> THEN 0 ELSE hit[1].needQty]]]

\* groupby(["sItem","ProdDate"]).sum() and pivot_table(fill_value=0): one
\* row per sItem, one column per ProdDate in ascending order, the columns
\* then renamed by strftime
pivot_df_of(exploded) ==
    LET dates == SortedDates({r.ProdDate : r \in Range(exploded)})
    IN  [columns |-> [k \in 1..Len(dates) |-> DateStr(dates[k])],
         rows |-> [c \in {r.sItem : r \in Range(exploded)} |->
                     [k \in 1..Len(dates) |->
                        SumCol(SelectSeq(exploded, LAMBDA r :
                                   r.sItem = c /\ r.ProdDate = dates[k]),
                               "needQty")]]]

\* faulty variant: the pivot is written as it is, with the days that have a
\* record only
reindex_NoFill(pivot, labels) == pivot

\* pivot_df.reindex(columns=all_days_str, fill_value=0).reset_index()
reindex(pivot, labels) ==
    [columns |-> labels,
     rows |-> [c \in DOMAIN pivot.rows |->
                 [i \in 1..Len(labels) |->
                    IF \E k \in 1..Len(pivot.columns) : pivot.columns[k] = labels[i]
                    THEN pivot.rows[c][CHOOSE k \in 1..Len(pivot.columns) :
                                          pivot.columns[k] = labels[i]]
                    ELSE 0]]]

\* result_df when no plan row has a parent in the BOM: the column sItem only
EmptyResult == [columns |-> <<>>, rows |-> <<>>]

\* result_df of step 3 as a whole
result_df_of(dfsched, cache, today) ==
    IF exploded_of(dfsched, cache) = <<>> THEN EmptyResult
    ELSE reindex(pivot_df_of(exploded_of(dfsched, cache)), all_days_str_of(today))

(***************************************************************************)
(* Inputs explored                                                         *)
(***************************************************************************)
P1 == <<"P", "1">>
P2 == <<"P", "2">>

\* tables are enumerated up to row order: non-decreasing sequences of row
\* codes 0..(d-1), of length n
NonDecreasing(d, n) ==
    {s \in [1..n -> 0..(d - 1)] : \A i \in 1..(n - 1) : s[i] <= s[i + 1]}

\* sample lines of TTISFC001002 (open status): the line number as an int and
\* as a padded string, a positive and a negative (over-delivered) backlog
SfcLines ==
    <<[OPRO |-> RawInt(10),                 QRDR |-> Some(2), QDLV |-> None],
      [OPRO |-> RawStr(<<"1", "0", " ">>),  QRDR |-> Some(1), QDLV |-> Some(2)]>>
SfcParts == <<P1, P2>>
SfcPdnos == <<1, 2>>

SfcRowAt(c) ==
    LET l == SfcLines[1 + (c % Len(SfcLines))]
        c1 == c \div Len(SfcLines)
        m == SfcParts[1 + (c1 % Len(SfcParts))]
        c2 == c1 \div Len(SfcParts)
    IN  [PDNO |-> Some(SfcPdnos[1 + c2]), OPRO |-> l.OPRO, MITM |-> m, OSTA |-> 1,
         QRDR |-> l.QRDR, QDLV |-> l.QDLV]
SfcCodes == Len(SfcLines) * Len(SfcParts) * Len(SfcPdnos)

\* sample lines of TTDPUR041002: two purchase orders on line 10 (as a float),
\* a second release of the first, and a purchase line of another line number
PurLines ==
    <<[OPNO |-> RawFloat(FALSE, 10, 0), PONO |-> 1, ORNO |-> 1, OQUA |-> Some(1)],
      [OPNO |-> RawFloat(FALSE, 10, 0), PONO |-> 2, ORNO |-> 1, OQUA |-> Some(2)],
      [OPNO |-> RawFloat(FALSE, 10, 0), PONO |-> 1, ORNO |-> 2, OQUA |-> None],
      [OPNO |-> RawInt(20),             PONO |-> 1, ORNO |-> 1, OQUA |-> Some(1)]>>

PurRowAt(c) ==
    LET l == PurLines[1 + (c % Len(PurLines))]
    IN  [PDNO |-> SfcPdnos[1 + (c \div Len(PurLines))], OPNO |-> l.OPNO,
         PONO |-> l.PONO, ORNO |-> l.ORNO, OQUA |-> l.OQUA]
PurCodes == Len(PurLines) * Len(SfcPdnos)

\* sample lines of TTDPUR045002 (receipts)
RecLines ==
    <<[PONO |-> 1, ORNO |-> 1, DQUA |-> Some(1)],
      [PONO |-> 2, ORNO |-> 1, DQUA |-> Some(1)],
      [PONO |-> 1, ORNO |-> 2, DQUA |-> Some(1)]>>

RecRowAt(c) ==
    LET l == RecLines[1 + (c % Len(RecLines))]
    IN  [PDNO |-> SfcPdnos[1 + (c \div Len(RecLines))],
         PONO |-> l.PONO, ORNO |-> l.ORNO, DQUA |-> l.DQUA]
RecCodes == Len(RecLines) * Len(SfcPdnos)

\* the snapshot the reconciler is explored on top of: two machine parts
\* without stock, each with a demand of 1 on the single day of the horizon
DefaultDb ==
    [mp     |-> <<[MITM |-> P1, CWAR |-> "W1"], [MITM |-> P2, CWAR |-> "W1"]>>,
     inv    |-> <<>>,
     theory |-> <<>>,
     ext    |-> <<>>,
     csv    |-> <<[ITEM |-> P1, qtys |-> <<Some(1)>>], [ITEM |-> P2, qtys |-> <<Some(1)>>]>>,
     dates  |-> <<1>>,
     cal    |-> <<1>>,
     today  |-> 1,
     sfc    |-> <<>>,
     p041   |-> <<>>,
     p045   |-> <<>>]

\* the scenario: backlog 50, one purchase line of 30, one receipt of 10
ScenarioDb ==
    [DefaultDb EXCEPT
        !.sfc  = <<[PDNO |-> Some(1), OPRO |-> RawInt(10), MITM |-> P1, OSTA |-> 1,
                    QRDR |-> Some(50), QDLV |-> Some(0)]>>,
        !.p041 = <<[PDNO |-> 1, OPNO |-> RawFloat(FALSE, 10, 0), PONO |-> 1, ORNO |-> 1,
                    OQUA |-> Some(30)]>>,
        !.p045 = <<[PDNO |-> 1, PONO |-> 1, ORNO |-> 1, DQUA |-> Some(10)]>>]

PaintDb(s, p, q) ==
    [DefaultDb EXCEPT
        !.sfc  = [i \in 1..Len(s) |-> SfcRowAt(s[i])],
        !.p041 = [i \in 1..Len(p) |-> PurRowAt(p[i])],
        !.p045 = [i \in 1..Len(q) |-> RecRowAt(q[i])]]

(***************************************************************************)
(* The run of main                                                         *)
(***************************************************************************)
IdleShortage ==
    /\ inv_total = 0 /\ demand = <<>> /\ date_cols = <<>> /\ idx = 0
    /\ cum = 0 /\ shortage_date = None /\ shortage_qty = None
IdleKey == raw = RawNull /\ key = None /\ key2 = None
IdleRun ==
    /\ cr = [sched |-> <<>>, cols |-> <<>>, bom |-> <<>>, today |-> 0]
    /\ df_sched = <<>> /\ bom_cache = <<>> /\ pivot_df = <<>>
    /\ all_days_str = <<>> /\ result_df = <<>>
IdleCell == cell_ym = <<>> /\ cell_daycol = <<>> /\ prod_date = None
IdleCal ==
    /\ workdays = <<>> /\ cal_shortage = 0 /\ cal_back_days = 0
    /\ snapped = None /\ due_date = None
IdleOther == IdleRun /\ IdleCell /\ IdleCal

MainStart(d) ==
    /\ pc = "start"
    /\ db = d
    /\ base = <<>> /\ req = <<>> /\ mfg_orders = <<>> /\ zan_sum = <<>>
    /\ recon = <<>> /\ out = <<>> /\ out_final = <<>>

\* steps 1-2: machine parts, stock, theory, external
LoadBase ==
    /\ pc = "start"
    /\ base' = base_of(db)
    /\ pc' = "base"
    /\ UNCHANGED <<db, req, mfg_orders, zan_sum, recon, out, out_final>>
    /\ UNCHANGED <<shortageVars, keyVars, runVars, cellVars, calVars>>

\* step 3: req = load_child_requirements(), kept for the machine parts
LoadRequirements ==
    /\ pc = "base"
    /\ IF db.dates = <<>>
       THEN pc' = "RuntimeError" /\ req' = req
       ELSE /\ pc' = "req"
            /\ req' = LET all == load_child_requirements(db.csv, Len(db.dates))
                      IN  [m \in (DOMAIN all) \cap (DOMAIN base) |-> all[m]]
    /\ UNCHANGED <<db, base, mfg_orders, zan_sum, recon, out, out_final>>
    /\ UNCHANGED <<shortageVars, keyVars, runVars, cellVars, calVars>>

\* step 5a: mfg_orders, zan_sum = load_mfg_open_orders(mitm_set)
LoadMfgOpenOrders ==
    /\ pc = "req"
    /\ mfg_orders' = mfg_orders_of(db.sfc, DOMAIN base)
    /\ zan_sum' = zan_sum_of(mfg_orders')
    /\ pc' = "orders"
    /\ UNCHANGED <<db, base, req, recon, out, out_final>>
    /\ UNCHANGED <<shortageVars, keyVars, runVars, cellVars, calVars>>

\* step 5b: paintable = load_paintable(mfg_orders)
LoadPaintable ==
    /\ pc = "orders"
    /\ recon' = load_paintable(mfg_orders, db.p041, db.p045)
    /\ pc' = "paint"
    /\ UNCHANGED <<db, base, req, mfg_orders, zan_sum, out, out_final>>
    /\ UNCHANGED <<shortageVars, keyVars, runVars, cellVars, calVars>>

\* steps 6-7: the merges, then shortage date, due date and shortage
\* quantity of every row; an IndexError ends the run
Assemble ==
    /\ pc = "paint"
    /\ LET rows == [m \in DOMAIN base |->
                      OutRow(m, base[m], req, zan_sum, recon, db.dates, db.cal, db.today)]
       IN  IF \E m \in DOMAIN rows : rows[m].raised
           THEN pc' = "IndexError" /\ out' = out
           ELSE pc' = "rows" /\ out' = rows
    /\ UNCHANGED <<db, base, req, mfg_orders, zan_sum, recon, out_final>>
    /\ UNCHANGED <<shortageVars, keyVars, runVars, cellVars, calVars>>

\* step 7 (filter) and step 8 (column order, sort, write)
FilterSort ==
    /\ pc = "rows"
    /\ out_final' = SortRows({out[m] : m \in {x \in DOMAIN out : KeepRow(out[x])}})
    /\ pc' = "done"
    /\ UNCHANGED <<db, base, req, mfg_orders, zan_sum, recon, out>>
    /\ UNCHANGED <<shortageVars, keyVars, runVars, cellVars, calVars>>

MainNext ==
    \/ LoadBase
    \/ LoadRequirements
    \/ LoadMfgOpenOrders
    \/ LoadPaintable
    \/ Assemble
    \/ FilterSort

\* the reconciler inputs vary, the rest of the snapshot is fixed
InitPaint ==
    /\ IdleShortage /\ IdleKey /\ IdleOther
    /\ \/ MainStart(ScenarioDb)
       \/ \E a \in 0..MaxRows : \E b \in 0..(MaxRows - a) : \E c \in 0..(MaxRows - a - b) :
            \E s \in NonDecreasing(SfcCodes, a) : \E p \in NonDecreasing(PurCodes, b) :
              \E q \in NonDecreasing(RecCodes, c) : MainStart(PaintDb(s, p, q))

SpecPaint == InitPaint /\ [][MainNext]_vars

\* stock and demand vary, the reconciler tables are empty
X9 == <<"X", "9">>
ReportDates == <<1, 2>>
QtyRows == [1..Len(ReportDates) -> {Some(v) : v \in 0..MaxQty}]

OptRow(o, r) == IF IsNone(o) THEN <<>> ELSE <<r>>

ReportDb(s1, s2, d1, d2, dx) ==
    [DefaultDb EXCEPT
        !.inv = OptRow(s1, [ITEM |-> P1, CWAR |-> "W1", STOC |-> s1])
                \o OptRow(s2, [ITEM |-> P2, CWAR |-> "W1", STOC |-> s2]),
        !.csv = OptRow(d1, [ITEM |-> P1, qtys |-> Val(d1)])
                \o OptRow(dx, [ITEM |-> X9, qtys |-> Val(dx)])
                \o OptRow(d2, [ITEM |-> P2, qtys |-> Val(d2)]),
        !.dates = ReportDates,
        !.cal = ReportDates]

InitReport ==
    /\ IdleShortage /\ IdleKey /\ IdleOther
    /\ \E s1, s2 \in {None} \cup {Some(v) : v \in 0..MaxQty} :
         \E d1, d2 \in {None} \cup {Some(q) : q \in QtyRows} :
           \E dx \in {None, Some([i \in 1..Len(ReportDates) |-> Some(1)])} :
             MainStart(ReportDb(s1, s2, d1, d2, dx))

SpecReport == InitReport /\ [][MainNext]_vars

\* the three inventory sources vary: a part is absent from a source, or
\* present with a quantity; the theoretical count spells P1 with a blank
InvDb(s1, s2, t1, t2, e1) ==
    [DefaultDb EXCEPT
        !.inv    = OptRow(s1, [ITEM |-> P1, CWAR |-> "W1", STOC |-> s1])
                   \o OptRow(s2, [ITEM |-> P2, CWAR |-> "W1", STOC |-> s2]),
        !.theory = OptRow(t1, [ITEM |-> <<"P", " ", "1">>, QTY |-> t1])
                   \o OptRow(t2, [ITEM |-> P2, QTY |-> t2]),
        !.ext    = OptRow(e1, [ITEM |-> P1, QTY |-> e1])]

InitInventory ==
    /\ IdleShortage /\ IdleKey /\ IdleOther
    /\ \E s1, s2, t1, t2, e1 \in {None} \cup {Some(v) : v \in 0..MaxQty} :
         MainStart(InvDb(s1, s2, t1, t2, e1))

SpecInventory == InitInventory /\ [][MainNext]_vars

\* the raw line numbers vary on both sides of the join: one open order line
\* of P1 and two purchase lines, the second of the same or of another order
JoinRaws ==
    {RawNull, RawStr(<<"a">>), RawStr(<<" ">>),
     RawInt(-1), RawStr(<<"-", "1">>), RawFloat(TRUE, 1, 7),
     RawInt(10), RawFloat(FALSE, 10, 0), RawStr(<<"1", "0", " ">>), RawInt(20)}

JoinDb(o, p, q, d) ==
    [DefaultDb EXCEPT
        !.sfc  = <<[PDNO |-> Some(1), OPRO |-> o, MITM |-> P1, OSTA |-> 1,
                    QRDR |-> Some(2), QDLV |-> None]>>,
        !.p041 = <<[PDNO |-> 1, OPNO |-> p, PONO |-> 1, ORNO |-> 1, OQUA |-> Some(1)],
                   [PDNO |-> d, OPNO |-> q, PONO |-> 2, ORNO |-> 1, OQUA |-> Some(2)]>>]

InitJoin ==
    /\ IdleShortage /\ IdleKey /\ IdleOther
    /\ \E o, p, q \in JoinRaws : \E d \in Range(SfcPdnos) :
         MainStart(JoinDb(o, p, q, d))

SpecJoin == InitJoin /\ [][MainNext]_vars

(***************************************************************************)
(* One call of compute_shortage, iteration by iteration                    *)
(***************************************************************************)
InvVals == (-1..(MaxQty + 1)) \cup {100}
DemandVals == (-1..MaxQty) \cup {40}

IdleMain ==
    /\ db = DefaultDb
    /\ base = <<>> /\ req = <<>> /\ mfg_orders = <<>> /\ zan_sum = <<>>
    /\ recon = <<>> /\ out = <<>> /\ out_final = <<>>

InitShortage ==
    /\ pc = "loop"
    /\ inv_total \in InvVals
    /\ \E n \in 0..MaxDays :
         /\ demand \in [1..n -> DemandVals]
         /\ date_cols \in {s \in [1..n -> 1..(n + 1)] : \A i \in 1..(n - 1) : s[i] < s[i + 1]}
    /\ idx = 0 /\ cum = 0 /\ shortage_date = None /\ shortage_qty = None
    /\ IdleKey /\ IdleMain /\ IdleOther

\* one pass through the body of the for loop
ShortageIter ==
    /\ pc = "loop"
    /\ idx < Len(demand)
    /\ LET st == ShortageStep([cum |-> cum, date |-> shortage_date], inv_total,
                              date_cols[idx + 1], demand[idx + 1])
       IN  cum' = st.cum /\ shortage_date' = st.date
    /\ idx' = idx + 1
    /\ UNCHANGED <<pc, inv_total, demand, date_cols, shortage_qty>>
    /\ UNCHANGED <<keyVars, mainVars, runVars, cellVars, calVars>>

\* shortage_qty = inv_total - cum; return
ShortageReturn ==
    /\ pc = "loop"
    /\ idx = Len(demand)
    /\ shortage_qty' = Some(inv_total - cum)
    /\ pc' = "returned"
    /\ UNCHANGED <<inv_total, demand, date_cols, idx, cum, shortage_date>>
    /\ UNCHANGED <<keyVars, mainVars, runVars, cellVars, calVars>>

ShortageNext == ShortageIter \/ ShortageReturn

SpecShortage == InitShortage /\ [][ShortageNext]_vars

(***************************************************************************)
(* to_int_str on one raw line number, and on its own result                *)
(***************************************************************************)
KeyChars == {"0", "1", " ", ".", "-", "+", "a", "b", "c"}

RawVals ==
    {RawNull}
    \cup {RawInt(v) : v \in {-1, 0, 10, 20}}
    \cup {RawFloat(n, w, f) : n \in BOOLEAN, w \in {0, 10}, f \in {0, 7}}
    \cup {RawStr(s) : s \in SeqsUpTo(KeyChars, MaxStrLen)}

InitKey ==
    /\ pc = "raw"
    /\ raw \in RawVals
    /\ key = None /\ key2 = None
    /\ IdleShortage /\ IdleMain /\ IdleOther

\* OPRO_K = to_int_str(OPRO) / OPNO_K = to_int_str(OPNO)
Canonicalize ==
    /\ pc = "raw"
    /\ key' = Some(to_int_str(raw))
    /\ pc' = "key"
    /\ UNCHANGED <<raw, key2>>
    /\ UNCHANGED <<shortageVars, mainVars, runVars, cellVars, calVars>>

\* the key, a str, given to to_int_str again
Recanonicalize ==
    /\ pc = "key"
    /\ key2' = Some(to_int_str(RawStr(Val(key))))
    /\ pc' = "key2"
    /\ UNCHANGED <<raw, key>>
    /\ UNCHANGED <<shortageVars, mainVars, runVars, cellVars, calVars>>

KeyNext == Canonicalize \/ Recanonicalize

SpecKey == InitKey /\ [][KeyNext]_vars

(***************************************************************************)
(* The run of child_requirements.run                                       *)
(***************************************************************************)
MaxExplRows == 4    \* most rows of trn_AssySchedule and bomMaster together

Q9 == <<"Q", "9">>
C1 == <<"C", "1">>
C2 == <<"C", "2">>
KEI10 == <<"KEI", "1", "0">>
KEI31 == <<"KEI", "3", "1">>
Ym2025(mm) == <<"2", "0", "2", "5", "/">> \o mm

\* the columns of trn_AssySchedule besides YearMonth and Item: two day
\* columns and a column that is no day column
SchedCols == <<KEI10, KEI31, <<"KEI", "1">>>>

\* sample rows of trn_AssySchedule: the scenario (5 of P1 on the 10th),
\* a second parent, a parent with trailing blank, a parent without BOM, a
\* month without 31st, a month at the end of the horizon, a month 13, a
\* malformed and a missing year-month, and cells that are no quantity
SchedSamples ==
    <<[YearMonth |-> Some(Ym2025(<<"0", "1">>)), Item |-> P1,
       cells |-> <<RawInt(5), RawNull, RawInt(9)>>],
      [YearMonth |-> Some(Ym2025(<<"0", "1">>)), Item |-> P2,
       cells |-> <<RawInt(1), RawInt(2), RawInt(9)>>],
      [YearMonth |-> Some(Ym2025(<<"0", "1">>)), Item |-> <<"P", "1", " ">>,
       cells |-> <<RawInt(1), RawInt(0), RawInt(9)>>],
      [YearMonth |-> Some(Ym2025(<<"0", "1">>)), Item |-> Q9,
       cells |-> <<RawInt(3), RawInt(3), RawInt(9)>>],
      [YearMonth |-> Some(Ym2025(<<"0", "2">>)), Item |-> P1,
       cells |-> <<RawInt(2), RawInt(4), RawInt(9)>>],
      [YearMonth |-> Some(Ym2025(<<"0", "3">>)), Item |-> P1,
       cells |-> <<RawInt(1), RawInt(1), RawInt(9)>>],
      [YearMonth |-> Some(Ym2025(<<"1", "3">>)), Item |-> P1,
       cells |-> <<RawInt(1), RawInt(1), RawInt(9)>>],
      [YearMonth |-> Some(<<"2", "0", "2", "5", "-", "0", "1">>), Item |-> P1,
       cells |-> <<RawInt(1), RawInt(1), RawInt(9)>>],
      [YearMonth |-> None, Item |-> P1,
       cells |-> <<RawInt(1), RawInt(1), RawInt(9)>>],
      [YearMonth |-> Some(Ym2025(<<"0", "1">>)), Item |-> P1,
       cells |-> <<RawStr(<<"a">>), RawInt(-1), RawInt(9)>>]>>

\* sample rows of bomMaster: two children of P1, a parent sharing the child
\* C1, padded identifiers with the value as a string, a NULL value
BomSamples ==
    <<[Item |-> P1, sItem |-> C1, bomValue |-> RawInt(2)],
      [Item |-> P1, sItem |-> C2, bomValue |-> RawInt(1)],
      [Item |-> P2, sItem |-> C1, bomValue |-> RawInt(3)],
      [Item |-> <<"P", "1", " ">>, sItem |-> <<" ", "C", "1">>,
       bomValue |-> RawStr(<<"2", " ">>)],
      [Item |-> P2, sItem |-> C2, bomValue |-> RawNull]>>

\* TODAY: the first of January, and the day after the 10th
Todays == {ToOrdinal(2025, 1, 1), ToOrdinal(2025, 1, 11)}

RunDb(a, b, t) ==
    [sched |-> [i \in 1..Len(a) |-> SchedSamples[1 + a[i]]],
     cols  |-> SchedCols,
     bom   |-> [i \in 1..Len(b) |-> BomSamples[1 + b[i]]],
     today |-> t]

InitExplode ==
    /\ pc = "run"
    /\ \E n \in 0..MaxExplRows : \E k \in 0..(MaxExplRows - n) :
         \E a \in NonDecreasing(Len(SchedSamples), n) :
           \E b \in NonDecreasing(Len(BomSamples), k) :
             \E t \in Todays : cr = RunDb(a, b, t)
    /\ df_sched = <<>> /\ bom_cache = <<>> /\ pivot_df = <<>>
    /\ all_days_str = <<>> /\ result_df = <<>>
    /\ IdleShortage /\ IdleKey /\ IdleMain /\ IdleCell /\ IdleCal

\* step 1: the schedule read and unfolded into daily plan rows
ReadSchedule ==
    /\ pc = "run"
    /\ LET r == df_sched_of(cr.sched, cr.cols, cr.today)
       IN  IF r.raised THEN pc' = r.error /\ df_sched' = df_sched
           ELSE pc' = "sched" /\ df_sched' = r.value
    /\ UNCHANGED <<cr, bom_cache, pivot_df, all_days_str, result_df>>
    /\ UNCHANGED <<shortageVars, keyVars, mainVars, cellVars, calVars>>

\* step 2: the BOM read, cleaned and cached per parent
ReadBom ==
    /\ pc = "sched"
    /\ bom_cache' = bom_cache_of(df_bom_of(cr.bom))
    /\ pc' = "bom"
    /\ UNCHANGED <<cr, df_sched, pivot_df, all_days_str, result_df>>
    /\ UNCHANGED <<shortageVars, keyVars, mainVars, cellVars, calVars>>

\* step 3: the explosion; without records the result is written at once,
\* otherwise the records are summed and pivoted and the horizon is laid out
Explode ==
    /\ pc = "bom"
    /\ LET exploded == exploded_of(df_sched, bom_cache)
       IN  IF exploded = <<>>
           THEN /\ result_df' = EmptyResult
                /\ pc' = "written"
                /\ UNCHANGED <<pivot_df, all_days_str>>
           ELSE /\ pivot_df' = pivot_df_of(exploded)
                /\ all_days_str' = all_days_str_of(cr.today)
                /\ pc' = "pivot"
                /\ UNCHANGED result_df
    /\ UNCHANGED <<cr, df_sched, bom_cache>>
    /\ UNCHANGED <<shortageVars, keyVars, mainVars, cellVars, calVars>>

\* the pivot laid over all days of the horizon; step 4: the CSV written
Reindex ==
    /\ pc = "pivot"
    /\ result_df' = reindex(pivot_df, all_days_str)
    /\ pc' = "written"
    /\ UNCHANGED <<cr, df_sched, bom_cache, pivot_df, all_days_str>>
    /\ UNCHANGED <<shortageVars, keyVars, mainVars, cellVars, calVars>>

(***************************************************************************)
(* AssyScheduleUpdate.run: the sheet of assembly starts written to          *)
(* trn_AssySchedule                                                        *)
(***************************************************************************)
MaxSheetRows == 2    \* most rows of the Excel sheet

\* sample rows of the sheet: an assembly start of P1 on 2025-01-10, and a
\* row whose start date is no date
SheetSamples ==
    <<[date |-> Some(ToOrdinal(2025, 1, 10)), PLU |-> RawStr(P1)],
      [date |-> None,                         PLU |-> RawInt(1)]>>

\* the sheets: up to MaxSheetRows sample rows, up to row order
Sheets ==
    UNION {{[i \in 1..n |-> SheetSamples[1 + a[i]]] :
                a \in NonDecreasing(Len(SheetSamples), n)} : n \in 0..MaxSheetRows}

\* the products of mst_PLU: P1, or none
MstSamples == {{P1}, {}}

\* dropna(subset=['Assembly Start Date']) after to_datetime(errors='coerce')
SheetKept(sheet) == SelectSeq(sheet, LAMBDA r : ~IsNone(r.date))

\* .dt.strftime('%Y/%m')
YmStr(d) == Pad(YearOf(d), 4) \o <<"/">> \o Pad(MonthOf(d), 2)

\* .astype(str) on a cell of the column PLU
PluStr(x) ==
    IF x.t = "int" THEN IntStr(IF x.neg THEN -(x.whole) ELSE x.whole) ELSE x.s

\* the key (年月度, PLU, 日付) of a sheet row
GroupKey(r) == [ym |-> YmStr(Val(r.date)), plu |-> PluStr(r.PLU), day |-> DayOf(Val(r.date))]

\* groupby(['年月度', 'PLU', '日付']).size(): the keys and their row counts
SheetGroups(sheet) == {GroupKey(r) : r \in Range(SheetKept(sheet))}
GroupCount(sheet, g) ==
    Cardinality({i \in 1..Len(SheetKept(sheet)) : GroupKey(SheetKept(sheet)[i]) = g})

\* the order of the groups: by 年月度, PLU, 日付
GroupBefore(a, b) ==
    IF a.ym # b.ym THEN StrLess(a.ym, b.ym)
    ELSE IF a.plu # b.plu THEN StrLess(a.plu, b.plu)
    ELSE a.day < b.day

RECURSIVE SortGroups(_)
SortGroups(gs) ==
    IF gs = {} THEN <<>>
    ELSE LET first == CHOOSE g \in gs : \A h \in gs \ {g} : GroupBefore(g, h)
         IN  <<first>> \o SortGroups(gs \ {first})

\* WHERE 年月度 = ? AND PLU = ?
MatchesGroup(row, g) == row.YearMonth = Some(g.ym) /\ row.Item = g.plu

\* the row of the INSERT: every day column 0, the other columns of cr.cols
\* are not named and stay NULL
NewSchedRow(g, cols) ==
    [YearMonth |-> Some(g.ym),
     Item      |-> g.plu,
     cells     |-> [j \in 1..Len(cols) |-> IF IsDayCol(cols[j]) THEN RawInt(0) ELSE RawNull]]

\* the loop over the groups, first part: a group without row in the table
\* gets one when mst_PLU knows the product
RECURSIVE InsertMissing(_, _, _, _)
InsertMissing(table, groups, mst, cols) ==
    IF groups = <<>> THEN table
    ELSE IF (\E i \in 1..Len(table) : MatchesGroup(table[i], groups[1]))
            \/ groups[1].plu \notin mst
         THEN InsertMissing(table, Tail(groups), mst, cols)
         ELSE InsertMissing(Append(table, NewSchedRow(groups[1], cols)),
                            Tail(groups), mst, cols)

\* f'計{str(day).zfill(2)}'
DayColumn(day) == <<"KEI">> \o Pad(day, 2)

\* UPDATE trn_AssySchedule SET 計dd = count WHERE 年月度 = ? AND PLU = ?
UpdateDay(table, cols, g, count) ==
    [i \in 1..Len(table) |->
        IF MatchesGroup(table[i], g)
        THEN [table[i] EXCEPT !.cells =
                 [j \in 1..Len(cols) |->
                     IF cols[j] = DayColumn(g.day) THEN RawInt(count) ELSE @[j]]]
        ELSE table[i]]

\* update_queries executed in the order of the groups
RECURSIVE UpdateDays(_, _, _, _)
UpdateDays(table, cols, groups, sheet) ==
    IF groups = <<>> THEN table
    ELSE UpdateDays(UpdateDay(table, cols, groups[1], GroupCount(sheet, groups[1])),
                    cols, Tail(groups), sheet)

\* the table after run: rows inserted, then the day cells set to the counts
UpdatedSchedule(table, cols, sheet, mst) ==
    UpdateDays(InsertMissing(table, SortGroups(SheetGroups(sheet)), mst, cols),
               cols, SortGroups(SheetGroups(sheet)), sheet)

\* AssyScheduleUpdate.run, before child_requirements.run reads the table:
\* the rows are inserted, the day cells updated and the transaction
\* committed. The columns 稼dd and 区dd it also sets are no columns of
\* cr.cols.
AssyScheduleUpdate ==
    /\ pc = "run"
    /\ \E sheet \in Sheets : \E mst \in MstSamples :
         cr' = [cr EXCEPT !.sched = UpdatedSchedule(cr.sched, cr.cols, sheet, mst)]
    /\ UNCHANGED <<pc, df_sched, bom_cache, pivot_df, all_days_str, result_df>>
    /\ UNCHANGED <<shortageVars, keyVars, mainVars, cellVars, calVars>>

RunNext == AssyScheduleUpdate \/ ReadSchedule \/ ReadBom \/ Explode \/ Reindex

SpecExplode == InitExplode /\ [][RunNext]_vars

(***************************************************************************)
(* One call of ym_day_to_date_safe                                         *)
(***************************************************************************)
YearStrs ==
    {<<"2", "0", "2", "5">>, <<"2", "0", "2", "4">>, <<"1">>, <<"0">>,
     <<"9", "9", "9", "9">>, <<"x">>, <<>>}
MonthStrs ==
    {<<"0", "1">>, <<"1">>, <<"0", "2">>, <<"0", "4">>, <<"1", "2">>, <<"1", "3">>,
     <<"0", "0">>, <<"-", "1">>, <<" ", "2">>, <<"a", "b">>, <<>>}

\* year-month strings: year "/" month, and strings with no or two "/"
YmStrs ==
    {y \o <<"/">> \o m : y \in YearStrs, m \in MonthStrs}
    \cup {<<"2", "0", "2", "5", "-", "0", "4">>,
          <<"2", "0", "2", "5", "/", "0", "4", "/", "0", "1">>,
          <<"2", "0", "2", "5", "0", "4">>,
          <<>>}

\* day columns, and strings that are none
DayColStrs ==
    {<<"KEI", "0", "0">>, <<"KEI", "0", "1">>, <<"KEI", "2", "8">>, <<"KEI", "2", "9">>,
     <<"KEI", "3", "0">>, <<"KEI", "3", "1">>, <<"KEI", "3", "2">>, <<"KEI", "a", "b">>,
     <<"KEI">>, <<"0", "1">>, <<>>}

InitCell ==
    /\ pc = "cell"
    /\ cell_ym \in YmStrs
    /\ cell_daycol \in DayColStrs
    /\ prod_date = None
    /\ IdleShortage /\ IdleKey /\ IdleMain /\ IdleRun /\ IdleCal

\* ProdDate = ym_day_to_date_safe(str(ym), str(dc))
ConvertCell ==
    /\ pc = "cell"
    /\ prod_date' = ym_day_to_date_safe(cell_ym, cell_daycol)
    /\ pc' = IF prod_date'.raised THEN prod_date'.error ELSE "cell_done"
    /\ UNCHANGED <<cell_ym, cell_daycol>>
    /\ UNCHANGED <<shortageVars, keyVars, mainVars, runVars, calVars>>

SpecCell == InitCell /\ [][ConvertCell]_vars

(***************************************************************************)
(* One call of delivery_date_from_shortage                                 *)
(***************************************************************************)
MaxDate == 8        \* the calendar is drawn from the days 1..MaxDate

\* the elements of a set of days in ascending order, each once or twice
\* (the calendar query is ORDER BY [T$DATE], without DISTINCT)
CalendarOf(S, twice) ==
    LET once == SortedDates(S)
    IN  IF twice THEN Concat([i \in 1..Len(once) |-> <<once[i], once[i]>>]) ELSE once

BackDaysVals == {0, 1, 2, BackDays}

InitCalendar ==
    /\ pc = "cal"
    /\ \E S \in SUBSET (1..MaxDate) : \E twice \in BOOLEAN :
         workdays = CalendarOf(S, twice)
    /\ cal_shortage \in 0..(MaxDate + 1)
    /\ cal_back_days \in BackDaysVals
    /\ snapped = None /\ due_date = None
    /\ IdleShortage /\ IdleKey /\ IdleMain /\ IdleRun /\ IdleCell

\* s = nearest_workday(workdays, shortage)
Snap ==
    /\ pc = "cal"
    /\ snapped' = Some(nearest_workday(workdays, cal_shortage))
    /\ pc' = "snapped"
    /\ UNCHANGED <<workdays, cal_shortage, cal_back_days, due_date>>
    /\ UNCHANGED <<shortageVars, keyVars, mainVars, runVars, cellVars>>

\* idx, due_idx, return workdays[due_idx]
BackOffset ==
    /\ pc = "snapped"
    /\ due_date' = delivery_date_from_shortage(workdays, cal_shortage, cal_back_days)
    /\ pc' = IF due_date'.raised THEN "IndexError" ELSE "due"
    /\ UNCHANGED <<workdays, cal_shortage, cal_back_days, snapped>>
    /\ UNCHANGED <<shortageVars, keyVars, mainVars, runVars, cellVars>>

CalendarNext == Snap \/ BackOffset

SpecCalendar == InitCalendar /\ [][CalendarNext]_vars

\* the calendar, the run date and the demand of P1 vary: P1 has a stock of
\* 1 and demand on the days 3 and 8, P2 has neither stock nor demand
DueDates == <<3, 8>>
DueTodays == {0, 2, 4, MaxDate + 1}

DueDb(S, t, q) ==
    [DefaultDb EXCEPT
        !.inv   = <<[ITEM |-> P1, CWAR |-> "W1", STOC |-> Some(1)]>>,
        !.csv   = <<[ITEM |-> P1, qtys |-> q]>>,
        !.dates = DueDates,
        !.cal   = SortedDates(S),
        !.today = t]

InitDue ==
    /\ IdleShortage /\ IdleKey /\ IdleOther
    /\ \E S \in SUBSET (1..MaxDate) : \E t \in DueTodays :
         \E q \in [1..Len(DueDates) -> {Some(v) : v \in 0..MaxQty}] :
           MainStart(DueDb(S, t, q))

SpecDue == InitDue /\ [][MainNext]_vars

\* the spelling of the machine parts varies: three rows of the machine-part
\* query drawn from identifiers with and without blanks; every spelling has
\* a stock of 1, and the demand of P1, P2 and Q1 falls on day 1, on day 2 or
\* on no day
Q1 == <<"Q", "1">>
SortRaws ==
    <<P1, P2, Q1, <<"P", " ", "2">>, <<" ", "Q", "1">>, <<"P", "FW", "1">>>>
SortKeys == <<P1, P2, Q1>>
SortQtys == {<<Some(2), Some(0)>>, <<Some(0), Some(2)>>, <<Some(0), Some(0)>>}

SortDb(a, b, c, q) ==
    [DefaultDb EXCEPT
        !.mp    = <<[MITM |-> a, CWAR |-> "W1"], [MITM |-> b, CWAR |-> "W1"],
                    [MITM |-> c, CWAR |-> "W1"]>>,
        !.inv   = [i \in 1..Len(SortRaws) |->
                      [ITEM |-> SortRaws[i], CWAR |-> "W1", STOC |-> Some(1)]],
        !.csv   = [i \in 1..Len(SortKeys) |-> [ITEM |-> SortKeys[i], qtys |-> q[i]]],
        !.dates = ReportDates,
        !.cal   = ReportDates]

InitSort ==
    /\ IdleShortage /\ IdleKey /\ IdleOther
    /\ \E a, b, c \in Range(SortRaws) : \E q \in [1..Len(SortKeys) -> SortQtys] :
         MainStart(SortDb(a, b, c, q))

SpecSort == InitSort /\ [][MainNext]_vars

(***************************************************************************)
(* The batch: child_requirements.run, then main on the file it wrote       *)
(***************************************************************************)
\* parse_date_col on a column label of the shape strftime("%Y-%m-%d") writes;
\* any other label of the file ("sItem") is no date
parse_date_col(col) ==
    IF /\ Len(col) = 10 /\ col[5] = "-" /\ col[8] = "-"
       /\ \A i \in {1, 2, 3, 4, 6, 7, 9, 10} : IsDigit(col[i])
       /\ ValidDate(DigitsValue(col, 1, 5), DigitsValue(col, 6, 8), DigitsValue(col, 9, 11))
    THEN Some(ToOrdinal(DigitsValue(col, 1, 5), DigitsValue(col, 6, 8),
                        DigitsValue(col, 9, 11)))
    ELSE None

\* date_cols: the dates of the labels that parse, in ascending order
date_cols_of(columns) ==
    LET ds == {Val(parse_date_col(columns[i])) :
                  i \in {k \in 1..Len(columns) : ~IsNone(parse_date_col(columns[k]))}}
    IN  [n \in 1..Cardinality(ds) |->
            CHOOSE d \in ds : Cardinality({e \in ds : e < d}) = n - 1]

\* the elements of a set of identifiers in ascending order
RECURSIVE SortedItems(_)
SortedItems(S) ==
    IF S = {} THEN <<>>
    ELSE LET c == CHOOSE x \in S : \A y \in S \ {x} : StrLess(x, y)
         IN  <<c>> \o SortedItems(S \ {c})

\* the rows of child_requirements.csv as main reads them: the sItem and the
\* quantity under every date column, in the order of date_cols
csv_rows_of(result, dates) ==
    LET items == SortedItems(DOMAIN result.rows)
    IN  [r \in 1..Len(items) |->
            [ITEM |-> items[r],
             qtys |-> [k \in 1..Len(dates) |->
                          Some(result.rows[items[r]][
                              CHOOSE i \in 1..Len(result.columns) :
                                  parse_date_col(result.columns[i]) = Some(dates[k])])]]]

\* the plan and BOM rows the batch is explored on: P1 and P2 in January, a
\* parent without BOM, a month beyond the horizon, and P1 spelled with a
\* blank inside; the BOM lines of P1 and P2
BatchSched ==
    <<SchedSamples[1], SchedSamples[2], SchedSamples[4], SchedSamples[6],
      [YearMonth |-> Some(Ym2025(<<"0", "1">>)), Item |-> <<"P", " ", "1">>,
       cells |-> <<RawInt(1), RawNull, RawInt(9)>>]>>
BatchBom == <<BomSamples[1], BomSamples[2], BomSamples[3]>>

\* the MPS calendar around the run date
BatchCal(t) == <<t - 6, t - 5, t - 4, t - 1, t, t + 1, t + 4>>

\* the machine parts are the children C1 and C2, C1 with a stock of 100
BatchDb(t) ==
    [DefaultDb EXCEPT
        !.mp    = <<[MITM |-> C1, CWAR |-> "W1"], [MITM |-> C2, CWAR |-> "W1"]>>,
        !.inv   = <<[ITEM |-> C1, CWAR |-> "W1", STOC |-> Some(100)]>>,
        !.csv   = <<>>,
        !.dates = <<>>,
        !.cal   = BatchCal(t),
        !.today = t]

InitBatch ==
    /\ pc = "run"
    /\ \E n \in 0..MaxExplRows : \E k \in 0..(MaxExplRows - n) :
         \E a \in NonDecreasing(Len(BatchSched), n) :
           \E b \in NonDecreasing(Len(BatchBom), k) :
             \E t \in Todays :
               /\ cr = [sched |-> [i \in 1..n |-> BatchSched[1 + a[i]]],
                        cols  |-> SchedCols,
                        bom   |-> [i \in 1..k |-> BatchBom[1 + b[i]]],
                        today |-> t]
               /\ db = BatchDb(t)
    /\ df_sched = <<>> /\ bom_cache = <<>> /\ pivot_df = <<>>
    /\ all_days_str = <<>> /\ result_df = <<>>
    /\ base = <<>> /\ req = <<>> /\ mfg_orders = <<>> /\ zan_sum = <<>>
    /\ recon = <<>> /\ out = <<>> /\ out_final = <<>>
    /\ IdleShortage /\ IdleKey /\ IdleCell /\ IdleCal

\* main is started after run: the file it reads is the file run wrote
StartMain ==
    /\ pc = "written"
    /\ db' = [db EXCEPT !.dates = date_cols_of(result_df.columns),
                        !.csv = csv_rows_of(result_df, date_cols_of(result_df.columns))]
    /\ pc' = "start"
    /\ UNCHANGED <<base, req, mfg_orders, zan_sum, recon, out, out_final>>
    /\ UNCHANGED <<shortageVars, keyVars, runVars, cellVars, calVars>>

BatchNext == RunNext \/ StartMain \/ MainNext

SpecBatch == InitBatch /\ [][BatchNext]_vars

\* the manufacturing orders vary: two orders, each with a status around the
\* bound, a machine part or another part, and quantities present or missing
OrderStatuses == {1, 5, 6, 7}
OrderRows(n) ==
    {[PDNO |-> Some(n), OPRO |-> RawInt(10), MITM |-> m, OSTA |-> o,
      QRDR |-> q, QDLV |-> d] :
        m \in {P1, X9}, o \in OrderStatuses,
        q \in {None, Some(MaxQty)}, d \in {None, Some(1)}}

OrdersDb(r1, r2) == [DefaultDb EXCEPT !.sfc = <<r1, r2>>]

InitOrders ==
    /\ IdleShortage /\ IdleKey /\ IdleOther
    /\ \E r1 \in OrderRows(1) : \E r2 \in OrderRows(2) : MainStart(OrdersDb(r1, r2))

SpecOrders == InitOrders /\ [][MainNext]_vars

(***************************************************************************)
(* Properties: Shortage Detector                                           *)
(***************************************************************************)
PrefixSum(s, i) == SumSeq(SubSeq(s, 1, i))

\* the days among the first k at which the available quantity minus the
\* cumulative demand up to and including that day is <= 0
ShortDays(k) == {i \in 1..k : inv_total - PrefixSum(demand, i) <= 0}

FirstShortDate(k) ==
    IF ShortDays(k) = {} THEN None
    ELSE Some(date_cols[CHOOSE i \in ShortDays(k) : \A j \in ShortDays(k) : i <= j])

\* C1: after every iteration of compute_shortage the shortage date is the
\* date of the first day so far with availableQty - cumulative demand <= 0
\* (so a date once set is never replaced by a later day) and it is null
\* when no day so far satisfies the condition; the returned date is the one
\* over the whole sequence.
C1_FirstShortageDay ==
    /\ shortage_date = FirstShortDate(idx)
    /\ pc = "returned" => shortage_date = FirstShortDate(Len(demand))

\* a returned call in which a later day is short as well as the first one
C1_Witness ==
    /\ pc = "returned"
    /\ Cardinality(ShortDays(Len(demand))) >= 2
    /\ ~IsNone(shortage_date)
    /\ Val(shortage_date) < date_cols[Len(date_cols)]

\* C2: the returned shortageQty is availableQty minus the cumulative demand
\* over the whole horizon; availableQty 100 with demand [40,40,40] gives
\* the third day as shortage date and shortageQty -20.
C2_QtyOverWholeHorizon ==
    pc = "returned" =>
        /\ shortage_qty = Some(inv_total - SumSeq(demand))
        /\ (inv_total = 100 /\ demand = <<40, 40, 40>>) =>
              /\ shortage_date = Some(date_cols[3])
              /\ shortage_qty = Some(-20)

\* the scenario of the specification has been computed
C2_Witness ==
    /\ pc = "returned"
    /\ inv_total = 100 /\ demand = <<40, 40, 40>>
    /\ shortage_qty = Some(-20)

(***************************************************************************)
(* Properties: line-number canonicalization                                *)
(***************************************************************************)
KeyTen == <<"1", "0">>
Sentinel == <<"-", "1">>

\* a string with a letter in it is no number
HasLetter(x) == x.t = "str" /\ \E i \in 1..Len(x.s) : x.s[i] \in {"a", "b", "c"}

\* a canonical key: decimal digits, after an optional minus sign
IsCanonicalKey(k) ==
    LET d == IF k # <<>> /\ k[1] = "-" THEN Tail(k) ELSE k
    IN  d # <<>> /\ \A i \in 1..Len(d) : IsDigit(d[i])

\* C10: the int 10, the float 10.0 and the string "10 " canonicalize to the
\* same key "10"; an unparsable value (a string with a letter such as
\* "abc", or NULL) canonicalizes to the sentinel "-1"; canonicalizing a key
\* again returns it unchanged.
C10_Canonicalization ==
    /\ pc \in {"key", "key2"} =>
        /\ raw \in {RawInt(10), RawFloat(FALSE, 10, 0), RawStr(<<"1", "0", " ">>)}
              => key = Some(KeyTen)
        /\ (HasLetter(raw) \/ raw = RawNull) => key = Some(Sentinel)
        /\ raw = RawStr(<<"a", "b", "c">>) => key = Some(Sentinel)
        /\ IsCanonicalKey(Val(key))
    /\ pc = "key2" => key2 = key

\* the float 10.0 has been canonicalized, and its key canonicalized again
C10_Witness ==
    /\ pc = "key2"
    /\ raw = RawFloat(FALSE, 10, 0)
    /\ key = Some(KeyTen) /\ key2 = Some(KeyTen)

(***************************************************************************)
(* Properties: Open-Order Reconciler, stated on the tables themselves      *)
(***************************************************************************)
\* sum of the values of a function with a finite domain
RECURSIVE SumFun(_)
SumFun(f) ==
    IF DOMAIN f = {} THEN 0
    ELSE LET x == CHOOSE y \in DOMAIN f : TRUE
         IN  f[x] + SumFun([z \in (DOMAIN f) \ {x} |-> f[z]])

\* the parts with at least one open order line
OrderedParts == {mfg_orders[i].MITM_N : i \in 1..Len(mfg_orders)}

\* the open order lines of part m (row numbers of mfg_orders)
OrderLinesOf(m) == {i \in 1..Len(mfg_orders) : mfg_orders[i].MITM_N = m}

\* order line i and purchase line k (row number of TTDPUR041002) agree on
\* the order and on the canonical line number
LineMatches(i, k) ==
    /\ mfg_orders[i].PDNO = Some(db.p041[k].PDNO)
    /\ mfg_orders[i].OPRO_K = to_int_str(db.p041[k].OPNO)

\* the purchase lines matched to the order lines of part m
MatchedPurchases(m) ==
    {k \in 1..Len(db.p041) : \E i \in OrderLinesOf(m) : LineMatches(i, k)}

NaturalKey(k) == <<db.p041[k].PDNO, db.p041[k].PONO, db.p041[k].ORNO>>

\* the receipts (row numbers of TTDPUR045002) matched to those purchase lines
MatchedReceipts(m) ==
    {r \in 1..Len(db.p045) :
        \E k \in MatchedPurchases(m) :
            <<db.p045[r].PDNO, db.p045[r].PONO, db.p045[r].ORNO>> = NaturalKey(k)}

\* A: total open-order backlog of part m, every order line once
BacklogTotal(m) == SumFun([i \in OrderLinesOf(m) |-> mfg_orders[i].zan])

\* B: total ordered quantity of the matched purchase lines, every line once
OrderedTotal(m) == SumFun([k \in MatchedPurchases(m) |-> FillNa0(db.p041[k].OQUA)])

\* C: total delivered quantity of the matched receipts
DeliveredTotal(m) == SumFun([r \in MatchedReceipts(m) |-> FillNa0(db.p045[r].DQUA)])

Reconciled == pc \in {"paint", "rows", "done"}

\* C4: for every part startableQty = max(0, A - (B - C)), A the part's total
\* open-order backlog, B the total ordered quantity of the purchase lines
\* matched to its order lines, C the total delivered quantity of the
\* receipts matched to those purchase lines.
C4_StartableFormula ==
    Reconciled =>
        \A m \in OrderedParts :
            /\ m \in DOMAIN recon
            /\ recon[m].startable
                 = Max(0, BacklogTotal(m) - (OrderedTotal(m) - DeliveredTotal(m)))

\* C5: the startable quantity of every part in the table (before and after
\* the filter) is >= 0.
C5_StartableNonNegative ==
    /\ pc \in {"rows", "done"} =>
         /\ DOMAIN out = DOMAIN base
         /\ \A m \in DOMAIN out : out[m].startable >= 0
    /\ pc = "done" =>
         \A i \in 1..Len(out_final) : out_final[i].startable >= 0

\* the final table holds a part whose backlog is negative (over-delivered
\* order), with purchase lines fetched, and a part without any open order
C5_Witness ==
    /\ pc = "done"
    /\ FetchByPdno(db.p041, mfg_orders) # <<>>
    /\ \E i, k \in 1..Len(out_final) :
         /\ out_final[i].zan < 0 /\ out_final[i].MITM_N \in OrderedParts
         /\ out_final[k].MITM_N \notin OrderedParts

\* the (order line, purchase line) pairs of part m that match
MatchedPairs(m) ==
    {p \in OrderLinesOf(m) \X (1..Len(db.p041)) : LineMatches(p[1], p[2])}

\* the receipt rows recorded for purchase line k
ReceiptsOf(k) ==
    {r \in 1..Len(db.p045) :
        <<db.p045[r].PDNO, db.p045[r].PONO, db.p045[r].ORNO>> = NaturalKey(k)}

\* C6: B counts the ordered quantity of a purchase line once per order line
\* it is matched to, however many receipt rows the purchase line has.
C6_NoReceiptFanOut ==
    Reconciled =>
        \A m \in OrderedParts :
            /\ m \in DOMAIN recon
            /\ recon[m].B = SumFun([p \in MatchedPairs(m) |-> FillNa0(db.p041[p[2]].OQUA)])

\* a part with one order line matched to one purchase line that has more
\* than one receipt row; B is the ordered quantity of that line
C6_Witness ==
    /\ pc = "paint"
    /\ \E m \in OrderedParts :
         /\ Cardinality(MatchedPairs(m)) = 1
         /\ \E k \in MatchedPurchases(m) :
              /\ Cardinality(ReceiptsOf(k)) > 1
              /\ FillNa0(db.p041[k].OQUA) > 0
              /\ recon[m].B = FillNa0(db.p041[k].OQUA)

\* the first matched purchase line of each natural key
FirstOfKey(m) ==
    {k \in MatchedPurchases(m) :
        \A k2 \in MatchedPurchases(m) : NaturalKey(k2) = NaturalKey(k) => k <= k2}

\* C7: B is the sum of orderedQty over the matched purchase lines after
\* deduplication on (order, purchase-order number, release number).
C7_OrderedDeduplicated ==
    Reconciled =>
        \A m \in OrderedParts :
            /\ m \in DOMAIN recon
            /\ recon[m].B = SumFun([k \in FirstOfKey(m) |-> FillNa0(db.p041[k].OQUA)])

\* C8: the backlog total A used in the formula is the sum of backlogQty over
\* the part's open order lines, each once: the 注残 figure of the same row.
C8_BacklogOnce ==
    Reconciled =>
        \A m \in OrderedParts :
            /\ m \in DOMAIN recon
            /\ recon[m].A = BacklogTotal(m)
            /\ recon[m].A = zan_sum[m]

\* C9: a part none of whose order lines matches a purchase line has
\* startableQty = max(0, A); it is in the result (no error).
C9_NoPurchaseMatch ==
    Reconciled =>
        \A m \in OrderedParts :
            MatchedPurchases(m) = {} =>
                /\ m \in DOMAIN recon
                /\ recon[m].startable = Max(0, BacklogTotal(m))

\* purchase lines were fetched and joined, one part has matches, another
\* part with a positive backlog has none
C9_Witness ==
    /\ pc = "paint"
    /\ \E m, n \in OrderedParts :
         /\ MatchedPurchases(m) = {} /\ BacklogTotal(m) > 0
         /\ recon[m].startable = BacklogTotal(m)
         /\ MatchedPurchases(n) # {}

(***************************************************************************)
(* Properties: Report Assembler                                            *)
(***************************************************************************)
FinalParts == {out_final[i].MITM_N : i \in 1..Len(out_final)}

\* C3: every part whose shortage quantity is >= 0 is dropped, every row of
\* the final table has shortage quantity < 0, and every machine part with
\* shortage quantity < 0 is kept (once).
C3_OnlyShortParts ==
    pc = "done" =>
        /\ \A i \in 1..Len(out_final) : out_final[i].sqty < 0
        /\ FinalParts = {m \in DOMAIN base : out[m].sqty < 0}
        /\ Len(out_final) = Cardinality(FinalParts)
        /\ \A m \in DOMAIN base :
             out[m].sqty = base[m].STOC - SumSeq(out[m].qtys)

\* one machine part with shortage quantity exactly 0 was dropped and
\* another, short, was kept
C3_Witness ==
    /\ pc = "done"
    /\ \E m, n \in DOMAIN out :
         /\ out[m].sqty = 0 /\ out[m].reqsum > 0 /\ m \notin FinalParts
         /\ out[n].sqty < 0 /\ n \in FinalParts

(***************************************************************************)
(* Properties: the join on the canonical line number                       *)
(***************************************************************************)
\* the raw line number cannot be parsed as a number
Unparsable(x) == to_numeric(x).nan

\* the left merge of load_paintable pairs order line i with purchase line k
Joined(i, k) ==
    ~IsNone(MergePurchase(<<mfg_orders[i]>>, p041_typed(<<db.p041[k]>>))[1].PONO)

\* C11: an open-order row with an unparsable line number is joined only to
\* purchase lines whose line number is unparsable too, and a row with a
\* parseable line number is never joined to a purchase line with an
\* unparsable one.
C11_SentinelSelfMatch ==
    Reconciled =>
        \A i \in 1..Len(mfg_orders) : \A k \in 1..Len(db.p041) :
            Joined(i, k) =>
                (Unparsable(mfg_orders[i].OPRO) <=> Unparsable(db.p041[k].OPNO))

(***************************************************************************)
(* Properties: BOM Explosion Engine                                        *)
(***************************************************************************)
Written == pc = "written"

\* the BOM lines, identifiers and value cleaned
BomLines == df_bom_of(cr.bom)

\* the (plan entry, BOM line) pairs that produce demand for child c on date d
DemandPairs(c, d) ==
    {x \in (1..Len(df_sched)) \X (1..Len(BomLines)) :
        /\ df_sched[x[1]].ProdDate = d
        /\ BomLines[x[2]].Item = df_sched[x[1]].Item
        /\ BomLines[x[2]].sItem = c}

\* sum of perUnitQty * quantity over those pairs
Demand(c, d) ==
    SumFun([x \in DemandPairs(c, d) |-> BomLines[x[2]].bomValue * df_sched[x[1]].Qty])

\* the child parts with at least one demand record
Children ==
    {BomLines[k].sItem : k \in {j \in 1..Len(BomLines) :
        \E i \in 1..Len(df_sched) : df_sched[i].Item = BomLines[j].Item}}

Horizon == (cr.today)..(cr.today + HORIZON_DAYS)

\* the column of the result table for date d
ColOf(d) == d - cr.today + 1

\* C12: for every child part and every date of the horizon the demand
\* written is the sum of perUnitQty * quantity over all plan entries of
\* that date and all BOM lines from the entry's parent to the child; 5 of
\* P1 on 2025-01-10 with the BOM line P1 -> C1, 2 gives 10 of C1 on
\* 2025-01-10.
C12_ExplosionSum ==
    Written =>
        /\ DOMAIN result_df.rows = Children
        /\ \A c \in Children : \A d \in Horizon :
              result_df.rows[c][ColOf(d)] = Demand(c, d)
        /\ (/\ df_sched = <<[ProdDate |-> ToOrdinal(2025, 1, 10), Item |-> P1, Qty |-> 5]>>
            /\ BomLines = <<[Item |-> P1, sItem |-> C1, bomValue |-> 2]>>)
              => /\ DOMAIN result_df.rows = {C1}
                 /\ result_df.columns[ColOf(ToOrdinal(2025, 1, 10))]
                      = <<"2", "0", "2", "5", "-", "0", "1", "-", "1", "0">>
                 /\ result_df.rows[C1][ColOf(ToOrdinal(2025, 1, 10))] = 10

\* demand of a child on one date comes from two plan entries of different
\* parents, and the sum is written
C12_Witness ==
    /\ Written
    /\ \E c \in Children : \E d \in Horizon :
         /\ \E x, y \in DemandPairs(c, d) :
               /\ df_sched[x[1]].Item # df_sched[y[1]].Item
               /\ BomLines[x[2]].bomValue > 0 /\ BomLines[y[2]].bomValue > 0
         /\ result_df.rows[c][ColOf(d)] = Demand(c, d)

\* the date a column label "YYYY-MM-DD" stands for (0: no such label)
LabelDate(l) ==
    IF /\ Len(l) = 10 /\ l[5] = "-" /\ l[8] = "-"
       /\ \A i \in {1, 2, 3, 4, 6, 7, 9, 10} : IsDigit(l[i])
       /\ ValidDate(DigitsValue(l, 1, 5), DigitsValue(l, 6, 8), DigitsValue(l, 9, 11))
    THEN ToOrdinal(DigitsValue(l, 1, 5), DigitsValue(l, 6, 8), DigitsValue(l, 9, 11))
    ELSE 0

\* C13: every child part with at least one demand record has exactly one
\* quantity for every calendar day of [today, today + horizonDays], zero
\* when there is no demand, with no gap, no extra day, in ascending order.
C13_Densified ==
    (Written /\ Children # {}) =>
        /\ Len(result_df.columns) = HORIZON_DAYS + 1
        /\ \A i \in 1..Len(result_df.columns) :
              LabelDate(result_df.columns[i]) = cr.today + (i - 1)
        /\ \A c \in Children :
              /\ c \in DOMAIN result_df.rows
              /\ Len(result_df.rows[c]) = HORIZON_DAYS + 1
              /\ \A d \in Horizon :
                    DemandPairs(c, d) = {} => result_df.rows[c][ColOf(d)] = 0

\* two children, one with demand on a day on which the other has none, and
\* days without any record
C13_Witness ==
    /\ Written /\ Children # {}
    /\ Len(pivot_df.columns) < Len(result_df.columns)
    /\ \E c, e \in Children : \E d \in Horizon :
         /\ result_df.rows[c][ColOf(d)] > 0
         /\ DemandPairs(e, d) = {} /\ result_df.rows[e][ColOf(d)] = 0

\* the plan entries whose parent has at least one BOM line
KnownParentRows == SelectSeq(df_sched, LAMBDA r : r.Item \in DOMAIN bom_cache)

\* C14: a plan entry whose parent has no BOM line generates no child demand
\* and no error (a run on a schedule with a row that has a year-month never
\* ends in an exception), and the table written is the one written without
\* it.
C14_UnknownParentDropped ==
    /\ DropNaYearMonth(cr.sched) # <<>>
         => pc \in {"run", "sched", "bom", "pivot", "written"}
    /\ Written =>
         /\ result_df = result_df_of(KnownParentRows, bom_cache, cr.today)
         /\ \A c \in DOMAIN result_df.rows :
               \E k \in 1..Len(BomLines) : BomLines[k].sItem = c

\* a plan entry of a parent without BOM line next to one that is exploded
C14_Witness ==
    /\ Written
    /\ \E i, k \in 1..Len(df_sched) :
         /\ df_sched[i].Item \notin DOMAIN bom_cache
         /\ df_sched[k].Item \in DOMAIN bom_cache
         /\ df_sched[i].ProdDate = df_sched[k].ProdDate
    /\ \E c \in Children : \E d \in Horizon : result_df.rows[c][ColOf(d)] > 0

(***************************************************************************)
(* Properties: plan ingestion                                              *)
(***************************************************************************)
\* the year-month string is "year/month" with a month 1..12 of a year
\* 1..9999, and the day column names a day that exists in that month
CellYear == PyInt(Split(cell_ym, "/")[1])
CellMonth == PyInt(Split(cell_ym, "/")[2])
CellDay == PyInt(SelectSeq(cell_daycol, LAMBDA c : c # "KEI"))
GoodCell ==
    /\ Len(Split(cell_ym, "/")) = 2
    /\ ~IsNone(CellYear) /\ ~IsNone(CellMonth) /\ ~IsNone(CellDay)
    /\ ValidDate(Val(CellYear), Val(CellMonth), Val(CellDay))

\* C15: converting a (year-month, day column) cell never raises; a day
\* that does not exist in the month (31 in April, 00) or a malformed
\* year-month string (a month outside 1..12 included) gives None, any
\* other cell gives its date.
C15_CellNeverRaises ==
    /\ pc \notin {"ValueError", "OverflowError"}
    /\ pc = "cell_done" =>
         /\ ~prod_date.raised
         /\ ~GoodCell => IsNone(prod_date.value)
         /\ GoodCell => prod_date.value
                          = Some(ToOrdinal(Val(CellYear), Val(CellMonth), Val(CellDay)))

(***************************************************************************)
(* Properties: Inventory Aggregator                                        *)
(***************************************************************************)
\* the quantity a source holds for part m, 0 when the part is absent
SourceQty(rows, col, m) ==
    SumFun([i \in {k \in 1..Len(rows) : normalize_item(rows[k].ITEM) = m} |->
               FillNa0(rows[i][col])])

\* C16: the total available quantity of every part is on-hand stock +
\* theoretical count + external stock, a source without the part counting 0.
C16_TotalAvailable ==
    pc # "start" =>
        \A m \in DOMAIN base :
            base[m].total = SourceQty(db.inv, "STOC", m)
                            + SourceQty(db.theory, "QTY", m)
                            + SourceQty(db.ext, "QTY", m)

(***************************************************************************)
(* Properties: Calendar Service                                            *)
(***************************************************************************)
Workdays == Range(workdays)
Dist(a, b) == IF a >= b THEN a - b ELSE b - a

\* C17: on a non-empty ascending calendar nearest_workday returns the first
\* workday for a date before it, the last for a date after it, the date
\* itself when it is a workday, and otherwise the closer of the two
\* adjacent workdays, the earlier one when both are equally far; the result
\* is a workday.
C17_NearestWorkday ==
    (pc \in {"snapped", "due"} /\ workdays # <<>>) =>
        LET t == cal_shortage
            s == Val(snapped)
        IN  /\ s \in Workdays
            /\ t < workdays[1] => s = workdays[1]
            /\ t > workdays[Len(workdays)] => s = workdays[Len(workdays)]
            /\ t \in Workdays => s = t
            /\ \A w \in Workdays :
                  /\ Dist(s, t) <= Dist(w, t)
                  /\ Dist(w, t) = Dist(s, t) => s <= w

\* a date between two workdays, equally far from both, snapped to the
\* earlier one
C17_Witness ==
    /\ pc = "snapped" /\ workdays # <<>>
    /\ cal_shortage \notin Workdays
    /\ \E a, b \in Workdays :
         /\ a < cal_shortage /\ cal_shortage < b
         /\ cal_shortage - a = b - cal_shortage
         /\ \A w \in Workdays : w <= a \/ w >= b
         /\ snapped = Some(a)

\* position (from 0) of the first occurrence of workday s
IndexOf(s) == (CHOOSE i \in 1..Len(workdays) :
                  workdays[i] = s /\ \A k \in 1..(i - 1) : workdays[k] # s) - 1

\* C18: on a non-empty ascending calendar the result of backOffset is
\* workdays[max(0, i - n)], i the index of nearestWorkday(date); it is a
\* workday, not before the first workday and not after nearestWorkday(date).
C18_BackOffset ==
    /\ workdays # <<>> => pc # "IndexError"
    /\ (pc = "due" /\ workdays # <<>>) =>
         /\ ~due_date.raised
         /\ due_date.date
              = Some(workdays[Max(0, IndexOf(Val(snapped)) - cal_back_days) + 1])
         /\ Val(due_date.date) \in Workdays
         /\ Val(due_date.date) >= workdays[1]
         /\ Val(due_date.date) <= Val(snapped)

\* five workdays back from a date that is no workday, without reaching the
\* first workday
C18_Witness ==
    /\ pc = "due"
    /\ cal_back_days = BackDays
    /\ cal_shortage \notin Workdays
    /\ IndexOf(Val(snapped)) - cal_back_days > 0
    /\ Val(due_date.date) < Val(snapped)

\* C19: with an empty calendar backOffset returns the input date unchanged
\* and does not raise.
C19_EmptyCalendarNoOp ==
    /\ workdays = <<>> => pc # "IndexError"
    /\ (pc = "due" /\ workdays = <<>>) =>
         /\ ~due_date.raised
         /\ due_date.date = Some(cal_shortage)

(***************************************************************************)
(* Properties: Report Assembler, due date                                  *)
(***************************************************************************)
\* the workday of the calendar closest to date t, the earlier of two
NearestOf(t) ==
    CHOOSE s \in Range(db.cal) :
        \A w \in Range(db.cal) :
            /\ Dist(s, t) <= Dist(w, t)
            /\ Dist(w, t) = Dist(s, t) => s <= w

\* n workdays before the workday closest to t, not before the first workday
BackOffsetOf(t, n) ==
    LET i == Cardinality({w \in Range(db.cal) : w < NearestOf(t)})
    IN  db.cal[Max(0, i - n) + 1]

\* C20: a part with a shortage date has the due date backOffset(shortage
\* date, 5 workdays), or today when that date is before today, so no due
\* date is before the run date; a part without shortage date has none.
C20_DueDate ==
    pc \in {"rows", "done"} =>
        /\ \A m \in DOMAIN out :
              IF IsNone(out[m].sdate) THEN IsNone(out[m].due)
              ELSE /\ out[m].due = Some(Max(db.today, BackOffsetOf(Val(out[m].sdate), 5)))
                   /\ Val(out[m].due) >= db.today
        /\ pc = "done" =>
              \A i \in 1..Len(out_final) :
                  /\ ~IsNone(out_final[i].due)
                  /\ Val(out_final[i].due) >= db.today
                  /\ out_final[i].due = out[out_final[i].MITM_N].due

\* a part whose due date, five workdays before its shortage date, is after
\* today, next to a part whose due date was moved forward to today
C20_Witness ==
    /\ pc = "done"
    /\ \E m, n \in DOMAIN out :
         /\ ~IsNone(out[m].sdate) /\ ~IsNone(out[n].sdate)
         /\ BackOffsetOf(Val(out[m].sdate), 5) > db.today
         /\ out[m].due = Some(BackOffsetOf(Val(out[m].sdate), 5))
         /\ Val(out[m].due) < Val(out[m].sdate)
         /\ BackOffsetOf(Val(out[n].sdate), 5) < db.today
         /\ out[n].due = Some(db.today)
    /\ \E i \in 1..Len(out_final) : Val(out_final[i].due) > db.today

(***************************************************************************)
(* Properties: Report Assembler, order of the final table                  *)
(***************************************************************************)
\* the shortage date of row a sorts before that of row b, null last
DateBefore(a, b) ==
    ~IsNone(a.sdate) /\ (IsNone(b.sdate) \/ Val(a.sdate) < Val(b.sdate))

\* C21: the rows of the final table are in ascending order of the shortage
\* date, null dates last, and rows of one shortage date are in ascending
\* order of the part key.
C21_SortedByDateThenKey ==
    pc = "done" =>
        \A i, j \in 1..Len(out_final) :
            i < j => \/ DateBefore(out_final[i], out_final[j])
                     \/ /\ out_final[i].sdate = out_final[j].sdate
                        /\ StrLess(out_final[i].MITM_N, out_final[j].MITM_N)

(***************************************************************************)
(* Properties: Shortage Detector, monotonicity                             *)
(***************************************************************************)
\* what compute_shortage returns on the same demand with a2 available
SecondRun(a2) == compute_shortage(demand, a2, date_cols)

\* C22: on one non-negative demand sequence, a larger available quantity
\* gives a shortage quantity that is not smaller and a shortage date that
\* is null or not earlier; a date with the larger quantity implies a date
\* with the smaller one.
C22_ShortageMonotone ==
    (pc = "returned" /\ \A i \in 1..Len(demand) : demand[i] >= 0) =>
        \A a2 \in InvVals :
            a2 >= inv_total =>
                /\ SecondRun(a2).qty >= Val(shortage_qty)
                /\ \/ IsNone(SecondRun(a2).date)
                   \/ /\ ~IsNone(shortage_date)
                      /\ Val(SecondRun(a2).date) >= Val(shortage_date)

\* a returned call with a shortage date for which one larger quantity moves
\* the date to a later day and a still larger one leaves no shortage date
C22_Witness ==
    /\ pc = "returned"
    /\ \A i \in 1..Len(demand) : demand[i] >= 0
    /\ ~IsNone(shortage_date)
    /\ \E a2, a3 \in InvVals :
         /\ inv_total < a2 /\ a2 < a3
         /\ ~IsNone(SecondRun(a2).date)
         /\ Val(SecondRun(a2).date) > Val(shortage_date)
         /\ SecondRun(a2).qty > Val(shortage_qty)
         /\ IsNone(SecondRun(a3).date)
         /\ SecondRun(a3).qty > SecondRun(a2).qty

(***************************************************************************)
(* Properties: the batch on an empty explosion                             *)
(***************************************************************************)
\* run has completed without any demand record
EmptyExplosion ==
    /\ pc \notin {"run", "sched", "bom", "pivot", "ValueError", "OverflowError",
                  "KeyError"}
    /\ result_df = EmptyResult

\* C23: when the explosion produces no demand record, it completes and the
\* report assembly that reads its output completes as well, without
\* raising an error: the explosion of a plan without entries does not end
\* in KeyError, and the assembly after an explosion without records does
\* not end in RuntimeError or IndexError.
C23_EmptyExplosionNotFatal ==
    /\ pc # "KeyError"
    /\ EmptyExplosion => pc \notin {"RuntimeError", "IndexError"}

(***************************************************************************)
(* Properties: PartKey identity in the joins                               *)
(***************************************************************************)
\* plan row i and BOM line b name the same parent part
SameParent(i, b) == normalize_item(df_sched[i].Item) = normalize_item(b.Item)

\* C24: in the join of plan parent to BOM parent, identifiers that differ
\* only in white space and normalize to the same PartKey are the same part:
\* a plan row finds every BOM line of its parent.
C24_SamePartKeySamePart ==
    pc \notin {"run", "sched", "ValueError", "OverflowError", "KeyError"} =>
        \A i \in 1..Len(df_sched) : \A b \in Range(cr.bom) :
            SameParent(i, b) =>
                /\ df_sched[i].Item \in DOMAIN bom_cache
                /\ \E l \in Range(bom_cache[df_sched[i].Item]) :
                      normalize_item(l.sItem) = normalize_item(b.sItem)

(***************************************************************************)
(* Properties: the quantity the demand is netted against                   *)
(***************************************************************************)
\* on-hand stock + theoretical shelf count + external-warehouse stock of a row
MergedAvailable(r) == r.STOC + r.theory + r.ext

\* C25: the shortage of every part is computed against the merged available
\* quantity (on-hand + theoretical + external), not against one source:
\* the shortage quantity is that figure minus the demand of the horizon, and
\* a shortage date is set exactly when some day brings it to zero or below.
C25_NettedAgainstMergedTotal ==
    pc \in {"rows", "done"} =>
        \A m \in DOMAIN out :
            /\ out[m].sqty = MergedAvailable(out[m]) - out[m].reqsum
            /\ out[m].sdate = compute_shortage(out[m].qtys, MergedAvailable(out[m]),
                                               db.dates).date

(***************************************************************************)
(* Properties: open manufacturing orders                                   *)
(***************************************************************************)
\* the status bound of the docstring of load_mfg_open_orders: OSTA < 7
DocStatusBound == 7

\* the order of TTISFC001002 row i is among the open orders
TreatedAsOpen(i) == \E k \in 1..Len(mfg_orders) : mfg_orders[k].PDNO = db.sfc[i].PDNO

\* C26: the open orders are exactly the orders with status OSTA < 7 of a
\* machine part, each with backlog QRDR - QDLV, a missing quantity
\* counting as 0.
C26_OpenBelowSeven ==
    pc \in {"orders", "paint", "rows", "done"} =>
        \A i \in 1..Len(db.sfc) :
            /\ TreatedAsOpen(i) <=>
                  /\ db.sfc[i].OSTA < DocStatusBound
                  /\ normalize_item(db.sfc[i].MITM) \in DOMAIN base
            /\ \A k \in 1..Len(mfg_orders) :
                  mfg_orders[k].PDNO = db.sfc[i].PDNO =>
                      mfg_orders[k].zan = FillNa0(db.sfc[i].QRDR) - FillNa0(db.sfc[i].QDLV)

(***************************************************************************)
(* Properties: due date against shortage date                              *)
(***************************************************************************)
\* C27: in every row of the final report the due date is not later than
\* the shortage date, for any workday calendar and any run date.
C27_DueNotAfterShortage ==
    pc = "done" =>
        \A i \in 1..Len(out_final) :
            /\ ~IsNone(out_final[i].due) /\ ~IsNone(out_final[i].sdate)
            /\ Val(out_final[i].due) <= Val(out_final[i].sdate)

(***************************************************************************)
(* Properties: null shortage date and the sign of the shortage quantity    *)
(***************************************************************************)
\* C28: with non-negative daily demand over at least one day, the shortage
\* date of a part is null exactly when its shortage quantity is > 0; so
\* every row kept by the filter "shortage quantity < 0" has a shortage
\* date and a due date.
C28_NullDateIffPositiveQty ==
    pc \in {"rows", "done"} =>
        /\ \A m \in DOMAIN out :
              (Len(db.dates) >= 1 /\ \A i \in 1..Len(out[m].qtys) : out[m].qtys[i] >= 0)
                  => (IsNone(out[m].sdate) <=> out[m].sqty > 0)
        /\ pc = "done" =>
              \A i \in 1..Len(out_final) :
                  /\ out_final[i].sqty < 0
                  /\ ~IsNone(out_final[i].sdate)
                  /\ ~IsNone(out_final[i].due)

\* a finished report with a row, next to a part whose stock covers the
\* demand exactly (a date, quantity 0) or with a rest (no date)
C28_Witness ==
    /\ pc = "done"
    /\ Len(out_final) >= 1
    /\ \E m \in DOMAIN out :
         \/ IsNone(out[m].sdate) /\ out[m].sqty > 0 /\ out[m].reqsum > 0
         \/ ~IsNone(out[m].sdate) /\ out[m].sqty = 0 /\ out[m].reqsum > 0

(***************************************************************************)
(* Properties: startable quantity against the backlog                      *)
(***************************************************************************)
\* C29: for every part the startable quantity of the output is at most
\* max(0, the open manufacturing-order backlog reported for the part),
\* whatever the purchase lines and receipts are.
C29_StartableWithinBacklog ==
    pc \in {"rows", "done"} =>
        \A m \in DOMAIN out : out[m].startable <= Max(0, out[m].zan)

(***************************************************************************)
(* Properties: receipt isolation                                           *)
(***************************************************************************)
\* the receipt rows of TTDPUR045002 with the order, purchase-order and
\* release number of a purchase line matched to an order line of part m
OwnReceipts(m) ==
    SelectSeq(db.p045, LAMBDA r :
        \E k \in MatchedPurchases(m) : <<r.PDNO, r.PONO, r.ORNO>> = NaturalKey(k))

\* C30: C of a part is the sum, over its matched (order line, purchase
\* line) pairs, of all receipts with the order, purchase-order and release
\* number of the purchase line; the receipts of another manufacturing order
\* or of no matched purchase line change neither C nor the startable
\* quantity: without them the reconciler gives the part the same figures.
C30_ReceiptIsolation ==
    Reconciled =>
        \A m \in OrderedParts :
            m \in DOMAIN recon =>
                /\ FetchByPdno(db.p041, mfg_orders) # <<>> =>
                      recon[m].C = SumFun([p \in MatchedPairs(m) |->
                                      SumFun([r \in ReceiptsOf(p[2]) |->
                                                 FillNa0(db.p045[r].DQUA)])])
                /\ load_paintable(mfg_orders, db.p041, OwnReceipts(m))[m] = recon[m]

\* a receipt fetched for another manufacturing order carries the purchase-
\* order and release number of a purchase line matched to part m, which has
\* no receipt of its own: C of the part is 0
C30_Witness ==
    /\ pc = "paint"
    /\ \E m \in OrderedParts : \E k \in MatchedPurchases(m) :
         /\ \E r \in 1..Len(db.p045) :
              /\ db.p045[r].PONO = db.p041[k].PONO
              /\ db.p045[r].ORNO = db.p041[k].ORNO
              /\ db.p045[r].PDNO # db.p041[k].PDNO
              /\ FillNa0(db.p045[r].DQUA) > 0
              /\ \E i \in 1..Len(mfg_orders) : mfg_orders[i].PDNO = Some(db.p045[r].PDNO)
         /\ ReceiptsOf(k) = {}
         /\ recon[m].C = 0
         /\ recon[m].startable = ClipLower0(recon[m].A - recon[m].B)

====
